---- MODULE Spec2Model ----
(***************************************************************************)
(* A model of modeling.py (the BERT encoder).                              *)
(*                                                                         *)
(* modeling.py is graph-construction code: every function takes symbolic   *)
(* tensors with static shapes, appends operations to the default graph,    *)
(* declares variables in the current variable scope and returns the new    *)
(* tensors, or raises.  The model keeps exactly that state:                *)
(*   - the graph, a sequence of operation nodes; a tensor is the index of  *)
(*     the node that produces it (0 stands for Python's None);             *)
(*   - the declared variables, which are the "variable" nodes of the       *)
(*     graph, named by their full variable-scope path;                     *)
(*   - the configuration objects on the heap (the caller's BertConfig and  *)
(*     the copy BertModel.__init__ makes);                                 *)
(*   - the attributes of the BertModel object under construction;          *)
(*   - the exception raised, if any.                                       *)
(* What the graph computes is given by Eval, for the operations whose      *)
(* result is exact on integers (reshape, gather, one_hot, matmul, slice,   *)
(* broadcasting add and multiply, ones, zeros, cast).                      *)
(* Floating-point values are modelled by integers; dropout probabilities   *)
(* are given in percent (10 is 0.1).                                       *)
(***************************************************************************)
EXTENDS Integers, Sequences, FiniteSets, TLC

VARIABLES
  entry,   \* the function this behaviour calls
  pc,      \* the position reached in it
  args,    \* the arguments of the call (a record)
  heap,    \* the BertConfig objects: reference -> record
  graph,   \* the default graph: a sequence of operation nodes
  feeds,   \* values of the placeholders and variables: name -> flat data
  drops,   \* the calls of dropout() so far: <<rate, input, output>> records
  self,    \* the attributes of the BertModel under construction
  loc,     \* the local variables of the running BertModel.__init__
  st,      \* the local variables of the running transformer_model call
  ret,     \* what the called function returned
  err      \* the exception raised ("" while none)

vars == <<entry, pc, args, heap, graph, feeds, drops, self, loc, st, ret, err>>

---------------------------------------------------------------------------
(* Bounds of the model. *)

\* largest extent of a tensor axis in the shape helpers' inputs
MaxDim == 2
\* largest rank of a tensor handed to the shape helpers
MaxRank == 3

---------------------------------------------------------------------------
(* Sequences and shapes. *)

None == 0

RECURSIVE Prod(_)
Prod(s) == IF s = <<>> THEN 1 ELSE Head(s) * Prod(Tail(s))

Range(s) == {s[i] : i \in DOMAIN s}

Last(s) == s[Len(s)]

\* s[0:-1] of Python
Front(s) == SubSeq(s, 1, Len(s) - 1)

\* the 0-based multi-index of the 0-based row-major offset k in a tensor of shape s
RECURSIVE Unravel(_, _)
Unravel(k, s) ==
  IF s = <<>> THEN <<>>
  ELSE LET inner == Prod(Tail(s))
       IN  <<k \div inner>> \o Unravel(k % inner, Tail(s))

\* the 0-based row-major offset of the 0-based multi-index ix in a tensor of shape s
RECURSIVE Ravel(_, _)
Ravel(ix, s) ==
  IF s = <<>> THEN 0
  ELSE Head(ix) * Prod(Tail(s)) + Ravel(Tail(ix), Tail(s))

\* the sum of the elements of s
RECURSIVE SeqSum(_)
SeqSum(s) == IF s = <<>> THEN 0 ELSE Head(s) + SeqSum(Tail(s))

---------------------------------------------------------------------------
(* The graph.  A node is an operation with one output tensor. *)

Node(op, name, shape, inputs, attr) ==
  [op |-> op, name |-> name, shape |-> shape, inputs |-> inputs, attr |-> attr]

\* The state a graph-building function works on: the graph g, the stack of
\* open variable scopes, the dropout calls made, the exception raised, and
\* v, the local variables of the running function that hold tensors
\* (variable name -> tensor).
Ctx(g, scope, v) == [g |-> g, scope |-> scope, drops |-> <<>>, err |-> "", v |-> v]

\* no local variable yet
NoLocals == <<>>

\* name = t
Bind(c, name, t) == IF c.err # "" THEN c ELSE [c EXCEPT !.v = (name :> t) @@ @]

Raise(c, e) == IF c.err # "" THEN c ELSE [c EXCEPT !.err = e]

\* dst = <the output of a new op>
Emit(c, dst, node) ==
  IF c.err # "" THEN c
  ELSE [c EXCEPT !.g = Append(@, node), !.v = (dst :> (Len(c.g) + 1)) @@ @]

\* the static shape of the tensor held by local variable x
ShapeOf(c, x) == c.g[c.v[x]].shape

Ndims(c, x) == Len(c.g[c.v[x]].shape)

\* a call: the callee starts with its parameters as its only locals ...
Enter(c, params) == IF c.err # "" THEN c ELSE [c EXCEPT !.v = params]

\* ... and the values it returns, its locals results, are assigned to the
\* variables dsts of the caller, whose locals and scope are those it had at
\* the call (caller)
Leave(c, caller, dsts, results) ==
  IF c.err # "" THEN [c EXCEPT !.v = caller.v, !.scope = caller.scope]
  ELSE LET returned == [d \in Range(dsts) |->
                          c.v[results[CHOOSE i \in DOMAIN dsts : dsts[i] = d]]]
       IN  [c EXCEPT !.v = returned @@ caller.v, !.scope = caller.scope]

\* a with block that leaves the scope as it is
variable_scope_flat(c, name) == [c EXCEPT !.scope = Append(@, "")]

\* with tf.variable_scope(name): entering the block
variable_scope(c, name) == [c EXCEPT !.scope = Append(@, name)]

\* leaving the block
end_scope(c) == [c EXCEPT !.scope = Front(@)]

RECURSIVE JoinPath(_)
JoinPath(p) ==
  IF p = <<>> THEN ""
  ELSE IF Len(p) = 1 THEN p[1]
  ELSE p[1] \o "/" \o JoinPath(Tail(p))

\* the full name of a variable declared as name in the current scope
ScopedName(c, name) == JoinPath(Append(c.scope, name))

\* the names of the variables declared in graph g
VariableNames(g) == {g[i].name : i \in {j \in DOMAIN g : g[j].op = "variable"}}

\* the variables of g in declaration order
VariableSeq(g) ==
  LET F[i \in 0..Len(g)] ==
        IF i = 0 THEN <<>>
        ELSE IF g[i].op = "variable" THEN Append(F[i - 1], g[i].name) ELSE F[i - 1]
  IN  F[Len(g)]

\* dst = tf.get_variable(name, shape, initializer): a second declaration of
\* a name in the same scope raises (no scope of modeling.py sets reuse)
get_variable(c, dst, name, shape) ==
  IF c.err # "" THEN c
  ELSE IF ScopedName(c, name) \in VariableNames(c.g)
       THEN Raise(c, "ValueError: variable already exists")
       ELSE Emit(c, dst, Node("variable", ScopedName(c, name), shape, <<>>, <<>>))

\* dst = tf.ones(shape)
tf_ones(c, dst, shape) == Emit(c, dst, Node("ones", "", shape, <<>>, <<>>))

\* dst = tf.zeros(shape)
tf_zeros(c, dst, shape) == Emit(c, dst, Node("zeros", "", shape, <<>>, <<>>))

\* dst = tf.reshape(x, shape): one entry of shape may be -1 and is inferred;
\* the element counts must agree (checked when the op is built, shapes being static)
tf_reshape(c, dst, x, shape) ==
  IF c.err # "" THEN c
  ELSE LET total == Prod(ShapeOf(c, x))
           known == Prod(SelectSeq(shape, LAMBDA d : d # -1))
           holes == Len(SelectSeq(shape, LAMBDA d : d = -1))
           full  == [i \in DOMAIN shape |->
                       IF shape[i] = -1 THEN total \div known ELSE shape[i]]
       IN  IF holes > 1 \/ (holes = 1 /\ (known = 0 \/ total % known # 0))
              \/ (holes = 0 /\ known # total)
           THEN Raise(c, "ValueError: reshape")
           ELSE Emit(c, dst, Node("reshape", "", full, <<c.v[x]>>, <<>>))

\* dst = tf.expand_dims(x, axis) for axis = -1 (a new last axis) or axis >= 0
tf_expand_dims(c, dst, x, axis) ==
  IF c.err # "" THEN c
  ELSE LET s  == ShapeOf(c, x)
           at == IF axis = -1 THEN Len(s) ELSE axis
       IN  Emit(c, dst, Node("reshape", "",
                             SubSeq(s, 1, at) \o <<1>> \o SubSeq(s, at + 1, Len(s)),
                             <<c.v[x]>>, <<>>))

\* dst = tf.one_hot(ids, depth) on a rank-1 tensor of ids
tf_one_hot(c, dst, ids, depth) ==
  IF c.err # "" THEN c
  ELSE Emit(c, dst, Node("one_hot", "", ShapeOf(c, ids) \o <<depth>>, <<c.v[ids]>>,
                         <<depth>>))

\* dst = tf.matmul(a, b, transpose_b): the product over the last two axes;
\* the leading (batch) axes must be equal and the inner extents must agree
tf_matmul(c, dst, a, b, transpose_b) ==
  IF c.err # "" THEN c
  ELSE LET sa == ShapeOf(c, a)
           sb == ShapeOf(c, b)
           r  == Len(sa)
           b_inner == IF transpose_b THEN sb[Len(sb)] ELSE sb[Len(sb) - 1]
           b_cols  == IF transpose_b THEN sb[Len(sb) - 1] ELSE sb[Len(sb)]
       IN  IF r < 2 \/ Len(sb) # r \/ SubSeq(sa, 1, r - 2) # SubSeq(sb, 1, r - 2)
              \/ sa[r] # b_inner
           THEN Raise(c, "ValueError: matmul")
           ELSE Emit(c, dst, Node("matmul", "", SubSeq(sa, 1, r - 1) \o <<b_cols>>,
                                  <<c.v[a], c.v[b]>>, <<IF transpose_b THEN 1 ELSE 0>>))

\* dst = tf.gather(params, ids): the rows of params at the rank-1 ids
tf_gather(c, dst, params, ids) ==
  IF c.err # "" THEN c
  ELSE Emit(c, dst, Node("gather", "", ShapeOf(c, ids) \o Tail(ShapeOf(c, params)),
                         <<c.v[params], c.v[ids]>>, <<>>))

\* dst = tf.cast(x, dtype): the values are kept (0 and 1 stay 0.0 and 1.0)
tf_cast(c, dst, x) ==
  IF c.err # "" THEN c
  ELSE Emit(c, dst, Node("cast", "", ShapeOf(c, x), <<c.v[x]>>, <<>>))

\* dst = tf.transpose(x, perm), perm 0-based
tf_transpose(c, dst, x, perm) ==
  IF c.err # "" THEN c
  ELSE LET s == ShapeOf(c, x)
       IN  Emit(c, dst, Node("transpose", "", [i \in DOMAIN perm |-> s[perm[i] + 1]],
                             <<c.v[x]>>, perm))

\* dst = an elementwise operation on x: "scale" (times 1/sqrt(attr)),
\* "one_minus" (1.0 - x), "times" (times attr), "softmax" (over the last axis)
tf_unary(c, dst, op, x, attr) ==
  IF c.err # "" THEN c
  ELSE Emit(c, dst, Node(op, "", ShapeOf(c, x), <<c.v[x]>>, attr))

\* shape s padded with leading 1s to rank r
PadShape(s, r) == [i \in 1..(r - Len(s)) |-> 1] \o s

MaxOf(a, b) == IF a >= b THEN a ELSE b

\* the shape two operands broadcast to, <<-1>> if they do not
BroadcastShape(sa, sb) ==
  LET r  == MaxOf(Len(sa), Len(sb))
      pa == PadShape(sa, r)
      pb == PadShape(sb, r)
  IN  IF \A i \in 1..r : pa[i] = pb[i] \/ pa[i] = 1 \/ pb[i] = 1
      THEN [i \in 1..r |-> MaxOf(pa[i], pb[i])]
      ELSE <<-1>>

\* dst = a op b, elementwise with broadcasting (op is "add" or "mul")
tf_binary(c, dst, op, a, b) ==
  IF c.err # "" THEN c
  ELSE LET s == BroadcastShape(ShapeOf(c, a), ShapeOf(c, b))
       IN  IF s = <<-1>> THEN Raise(c, "ValueError: broadcast")
           ELSE Emit(c, dst, Node(op, "", s, <<c.v[a], c.v[b]>>, <<>>))

\* dst = tf.slice(x, [begin, 0], [n, -1]): rows begin..begin+n-1 of a matrix;
\* a slice past the last row is rejected when the op is built
tf_slice_rows(c, dst, x, begin, n) ==
  IF c.err # "" THEN c
  ELSE LET s == ShapeOf(c, x)
       IN  IF begin + n > s[1] THEN Raise(c, "ValueError: slice")
           ELSE Emit(c, dst, Node("slice", "", <<n>> \o Tail(s), <<c.v[x]>>, <<begin>>))

\* the slice taken from the end of the table instead of its start
tf_slice_last(c, dst, x, n) ==
  IF c.err # "" THEN c ELSE tf_slice_rows(c, dst, x, ShapeOf(c, x)[1] - n, n)

\* dst = tf.slice(x, [0, 0], [n, -1])
tf_slice(c, dst, x, n) == tf_slice_rows(c, dst, x, 0, n)

\* tf.assert_less(x, y) on two Python integers
assert_less(c, x, y) ==
  IF c.err # "" THEN c
  ELSE IF x < y THEN c ELSE Raise(c, "InvalidArgumentError: assert_less_equal")

\* tf.assert_less_equal(x, y) on two Python integers: both values are
\* static, so the condition is decided where the assertion is stated
assert_less_equal(c, x, y) ==
  IF c.err # "" THEN c
  ELSE IF x <= y THEN c ELSE Raise(c, "InvalidArgumentError: assert_less_equal")

\* the scope a layer without a name opens: default_name, made unique in
\* the current scope if variables of that scope exist already
DefaultScope(c, default_name, probe) ==
  IF ScopedName(c, default_name \o "/" \o probe) \in VariableNames(c.g)
  THEN default_name \o "_1"
  ELSE default_name

\* dst = tf.layers.dense(x, units, activation, name): kernel and bias are
\* declared in the scope name (default "dense"); activation is "" for None
tf_layers_dense(c, dst, x, units, activation, name) ==
  LET open(z)   == variable_scope(z, IF name = "" THEN DefaultScope(z, "dense", "kernel")
                                     ELSE name)
      kernel(z) == get_variable(z, "dense.kernel", "kernel", <<Last(ShapeOf(z, x)), units>>)
      bias(z)   == get_variable(z, "dense.bias", "bias", <<units>>)
      apply(z)  == Emit(z, dst, Node("dense", activation, Front(ShapeOf(z, x)) \o <<units>>,
                                     <<z.v[x], z.v["dense.kernel"], z.v["dense.bias"]>>,
                                     <<>>))
  IN  IF c.err # "" THEN c ELSE end_scope(apply(bias(kernel(open(c)))))

---------------------------------------------------------------------------
(* What the graph computes: the flat row-major data of tensor t. *)

\* the 1-based offset, in an operand of shape s, of the element that
\* broadcasts to the 0-based multi-index ix of the result
BroadcastOffset(ix, s) ==
  LET ps == PadShape(s, Len(ix))
  IN  Ravel([i \in DOMAIN ix |-> IF ps[i] = 1 THEN 0 ELSE ix[i]], ps) + 1

RECURSIVE Eval(_, _, _)
Eval(g, t, fd) ==
  LET n  == g[t]
      sz == Prod(n.shape)
  IN  CASE n.op \in {"placeholder", "variable"} -> fd[n.name]
        [] n.op = "ones"    -> [k \in 1..sz |-> 1]
        [] n.op = "zeros"   -> [k \in 1..sz |-> 0]
        [] n.op \in {"reshape", "cast"} -> Eval(g, n.inputs[1], fd)
        [] n.op = "one_minus" ->
             LET a == Eval(g, n.inputs[1], fd) IN [k \in 1..sz |-> 1 - a[k]]
        [] n.op = "times" ->
             LET a == Eval(g, n.inputs[1], fd) IN [k \in 1..sz |-> a[k] * n.attr[1]]
        [] n.op = "slice" ->
             LET a   == Eval(g, n.inputs[1], fd)
                 row == Prod(Tail(n.shape))
             IN  SubSeq(a, n.attr[1] * row + 1, n.attr[1] * row + sz)
        [] n.op \in {"add", "mul"} ->
             LET a == Eval(g, n.inputs[1], fd)
                 b == Eval(g, n.inputs[2], fd)
             IN  [k \in 1..sz |->
                    LET ix == Unravel(k - 1, n.shape)
                        x  == a[BroadcastOffset(ix, g[n.inputs[1]].shape)]
                        y  == b[BroadcastOffset(ix, g[n.inputs[2]].shape)]
                    IN  IF n.op = "add" THEN x + y ELSE x * y]
        [] n.op = "one_hot" ->
             LET ids == Eval(g, n.inputs[1], fd)
                 depth == n.attr[1]
             IN  [k \in 1..sz |->
                    IF ids[((k - 1) \div depth) + 1] = (k - 1) % depth THEN 1 ELSE 0]
        [] n.op = "matmul" ->
             LET a == Eval(g, n.inputs[1], fd)
                 b == Eval(g, n.inputs[2], fd)
                 inner == Last(g[n.inputs[1]].shape)
                 cols == Last(n.shape)
             IN  [k \in 1..sz |->
                    LET i == (k - 1) \div cols
                        j == (k - 1) % cols
                    IN  SeqSum([l \in 1..inner |->
                                  a[i * inner + l] * b[(l - 1) * cols + j + 1]])]
        [] n.op = "gather" ->
             LET params == Eval(g, n.inputs[1], fd)
                 ids == Eval(g, n.inputs[2], fd)
                 row == Prod(Tail(g[n.inputs[1]].shape))
             IN  [k \in 1..sz |->
                    params[ids[((k - 1) \div row) + 1] * row + ((k - 1) % row) + 1]]

---------------------------------------------------------------------------
(* Shape helpers (modeling.py, lines 1007-1098). *)

\* assert_rank(tensor, expected_rank): expected_rank is an integer or a list
\* of integers; both are given here as the set of accepted ranks
assert_rank(c, x, expected_rank) ==
  IF c.err # "" THEN c
  ELSE IF Ndims(c, x) \notin expected_rank
       THEN Raise(c, "ValueError: rank")
       ELSE c

\* get_shape_list(tensor): every dimension is static in this model, so the
\* list is tensor.shape.as_list()
get_shape_list(c, x) == ShapeOf(c, x)

\* dst = reshape_to_matrix(input_tensor)
reshape_to_matrix(c, dst, input_tensor) ==
  IF c.err # "" THEN c
  ELSE LET ndims == Ndims(c, input_tensor)
       IN  IF ndims < 2 THEN Raise(c, "ValueError: rank < 2")
           ELSE IF ndims = 2 THEN Bind(c, dst, c.v[input_tensor])
           ELSE LET width == Last(ShapeOf(c, input_tensor))
                IN  tf_reshape(c, dst, input_tensor, <<-1, width>>)

\* reshape_from_matrix with orig_shape_list[1:] for orig_shape_list[0:-1]
reshape_from_matrix_tail(c, dst, output_tensor, orig_shape_list) ==
  IF c.err # "" THEN c
  ELSE IF Len(orig_shape_list) = 2 THEN Bind(c, dst, c.v[output_tensor])
  ELSE LET output_shape == get_shape_list(c, output_tensor)
           orig_dims    == Tail(orig_shape_list)
           width        == Last(output_shape)
       IN  tf_reshape(c, dst, output_tensor, orig_dims \o <<width>>)

\* dst = reshape_from_matrix(output_tensor, orig_shape_list)
reshape_from_matrix(c, dst, output_tensor, orig_shape_list) ==
  IF c.err # "" THEN c
  ELSE IF Len(orig_shape_list) = 2 THEN Bind(c, dst, c.v[output_tensor])
  ELSE LET output_shape == get_shape_list(c, output_tensor)
           orig_dims    == Front(orig_shape_list)
           width        == Last(output_shape)
       IN  tf_reshape(c, dst, output_tensor, orig_dims \o <<width>>)

---------------------------------------------------------------------------
(* Calls of single functions: the state before the call, and the state a   *)
(* graph-building function leaves.                                         *)

NoHeap == <<>>

NoSelf == <<>>

NoFrame == <<>>

InitCall(e, a, g, fd) ==
  /\ entry = e
  /\ pc = "call"
  /\ args = a
  /\ graph = g
  /\ feeds = fd
  /\ heap = NoHeap
  /\ drops = <<>>
  /\ self = NoSelf
  /\ loc = NoFrame
  /\ st = NoFrame
  /\ ret = None
  /\ err = ""

\* the function ran to context c: it returned its local result, or raised c.err
Finish(c, result, next) ==
  /\ graph' = c.g
  /\ drops' = drops \o c.drops
  /\ err' = c.err
  /\ ret' = IF c.err = "" THEN c.v[result] ELSE None
  /\ pc' = IF c.err = "" THEN next ELSE "failed"

\* the shapes of rank 1..MaxRank with extents 1..MaxDim
Shapes(maxrank) == UNION {[1..r -> 1..MaxDim] : r \in 1..maxrank}

\* test data: element k of an n-element tensor holds (k * m) % 7
Fill(n, m) == [k \in 1..n |-> (k * m) % 7]

Fills == {1, 2, 3}

---------------------------------------------------------------------------
(* reshape_to_matrix followed by reshape_from_matrix on a fed tensor. *)

InitReshape ==
  \E s \in Shapes(MaxRank), m \in Fills :
    InitCall("reshape", [t |-> 1, shape |-> s],
             <<Node("placeholder", "t", s, <<>>, <<>>)>>,
             [x \in {"t"} |-> Fill(Prod(s), m)])

ReshapeToMatrix ==
  /\ entry = "reshape"
  /\ pc = "call"
  /\ Finish(reshape_to_matrix(Ctx(graph, <<>>, [t |-> args.t]), "matrix", "t"),
            "matrix", "flat")
  /\ UNCHANGED <<entry, args, heap, feeds, self, loc, st>>

ReshapeFromMatrix ==
  /\ entry = "reshape"
  /\ pc = "flat"
  /\ LET c == Ctx(graph, <<>>, [t |-> args.t, matrix |-> ret])
     IN  Finish(reshape_from_matrix(c, "restored", "matrix", get_shape_list(c, "t")),
                "restored", "done")
  /\ UNCHANGED <<entry, args, heap, feeds, self, loc, st>>

NextReshape == ReshapeToMatrix \/ ReshapeFromMatrix

SpecReshape == InitReshape /\ [][NextReshape]_vars

\* C5: for a tensor t of rank 2 or 3, reshape_from_matrix(reshape_to_matrix(t),
\* get_shape_list(t)) has the shape and, element for element, the data of t;
\* neither conversion raises; for rank 2 both return their argument itself.
ReshapeRoundTrip ==
  (entry = "reshape" /\ Len(args.shape) \in {2, 3}) =>
    /\ err = ""
    /\ pc = "done" =>
         /\ graph[ret].shape = args.shape
         /\ Eval(graph, ret, feeds) = Eval(graph, args.t, feeds)
    /\ (Len(args.shape) = 2 /\ pc \in {"flat", "done"}) =>
         /\ ret = args.t
         /\ Len(graph) = 1

\* a rank-3 tensor with unequal extents went through both conversions
ReshapeRoundTripWitness ==
  /\ entry = "reshape"
  /\ pc = "done"
  /\ Len(args.shape) = 3
  /\ args.shape[1] # args.shape[2]
  /\ ret # args.t

---------------------------------------------------------------------------
(* embedding_lookup (modeling.py, lines 393-447). *)

\* embedding_lookup with the one-hot depth taken from embedding_size
embedding_lookup_depth(c, dsts, input_ids, vocab_size, embedding_size, word_embedding_name, use_one_hot_embeddings) ==
  LET expand(z)  == IF Ndims(z, "input_ids") = 2
                    THEN tf_expand_dims(z, "input_ids", "input_ids", -1)
                    ELSE z
      table(z)   == get_variable(z, "embedding_table", word_embedding_name,
                                 <<vocab_size, embedding_size>>)
      flat(z)    == tf_reshape(z, "flat_input_ids", "input_ids", <<-1>>)
      one_hot(z) == tf_one_hot(z, "one_hot_input_ids", "flat_input_ids", embedding_size)
      product(z) == tf_matmul(z, "output", "one_hot_input_ids", "embedding_table", FALSE)
      lookup(z)  == IF use_one_hot_embeddings
                    THEN product(one_hot(z))
                    ELSE tf_gather(z, "output", "embedding_table", "flat_input_ids")
      shape(z)   == LET input_shape == get_shape_list(z, "input_ids")
                    IN  tf_reshape(z, "output", "output",
                                   Front(input_shape)
                                     \o <<Last(input_shape) * embedding_size>>)
  IN  IF c.err # "" THEN c
      ELSE Leave(shape(lookup(flat(table(expand(
                   Enter(c, [input_ids |-> c.v[input_ids]])))))),
                 c, dsts, <<"output", "embedding_table">>)

\* dsts = embedding_lookup(input_ids, ...): the pair (output, embedding_table)
embedding_lookup(c, dsts, input_ids, vocab_size, embedding_size, word_embedding_name, use_one_hot_embeddings) ==
  LET expand(z)  == IF Ndims(z, "input_ids") = 2
                    THEN tf_expand_dims(z, "input_ids", "input_ids", -1)
                    ELSE z
      table(z)   == get_variable(z, "embedding_table", word_embedding_name,
                                 <<vocab_size, embedding_size>>)
      flat(z)    == tf_reshape(z, "flat_input_ids", "input_ids", <<-1>>)
      one_hot(z) == tf_one_hot(z, "one_hot_input_ids", "flat_input_ids", vocab_size)
      product(z) == tf_matmul(z, "output", "one_hot_input_ids", "embedding_table", FALSE)
      lookup(z)  == IF use_one_hot_embeddings
                    THEN product(one_hot(z))
                    ELSE tf_gather(z, "output", "embedding_table", "flat_input_ids")
      shape(z)   == LET input_shape == get_shape_list(z, "input_ids")
                    IN  tf_reshape(z, "output", "output",
                                   Front(input_shape)
                                     \o <<Last(input_shape) * embedding_size>>)
  IN  IF c.err # "" THEN c
      ELSE Leave(shape(lookup(flat(table(expand(
                   Enter(c, [input_ids |-> c.v[input_ids]])))))),
                 c, dsts, <<"output", "embedding_table">>)

\* largest vocabulary of an embedding table
MaxVocab == 3

\* id grids: element k of an n-element grid holds the id (k * m + o) % v
IdFills(n, v) == {[k \in 1..n |-> (k * m + o) % v] : m \in 0..2, o \in 0..(v - 1)}

InitLookup ==
  \E b \in 1..MaxDim, sq \in 1..MaxDim, v \in 1..MaxVocab, e \in 1..MaxDim,
     m \in Fills, oh \in BOOLEAN :
    \E ids \in IdFills(b * sq, v) :
      InitCall("embedding_lookup",
               [input_ids |-> 1, vocab_size |-> v, embedding_size |-> e,
                word_embedding_name |-> "word_embeddings",
                use_one_hot_embeddings |-> oh],
               <<Node("placeholder", "input_ids", <<b, sq>>, <<>>, <<>>)>>,
               [x \in {"input_ids", "word_embeddings"} |->
                  IF x = "input_ids" THEN ids ELSE Fill(v * e, m)])

EmbeddingLookup ==
  /\ entry = "embedding_lookup"
  /\ pc = "call"
  /\ Finish(embedding_lookup(Ctx(graph, <<>>, [input_ids |-> args.input_ids]),
                             <<"output", "embedding_table">>, "input_ids",
                             args.vocab_size, args.embedding_size,
                             args.word_embedding_name, args.use_one_hot_embeddings),
            "output", "done")
  /\ UNCHANGED <<entry, args, heap, feeds, self, loc, st>>

NextLookup == EmbeddingLookup

SpecLookup == InitLookup /\ [][NextLookup]_vars

\* C6: for ids in 0..vocab_size-1, embedding_lookup returns, with either
\* value of use_one_hot_embeddings, a [batch, seq, embedding_size] tensor
\* whose row (b, s) is row input_ids[b][s] of the table; the result of the
\* call equals the result of the same call with the other strategy.
LookupStrategiesAgree ==
  entry = "embedding_lookup" =>
    /\ err = ""
    /\ pc = "done" =>
         LET ids   == feeds["input_ids"]
             table == feeds["word_embeddings"]
             e     == args.embedding_size
             out   == Eval(graph, ret, feeds)
             other == embedding_lookup(
                        Ctx(SubSeq(graph, 1, 1), <<>>, [input_ids |-> args.input_ids]),
                        <<"output", "embedding_table">>, "input_ids", args.vocab_size,
                        e, args.word_embedding_name, ~args.use_one_hot_embeddings)
         IN  /\ graph[ret].shape = graph[args.input_ids].shape \o <<e>>
             /\ Len(out) = Len(ids) * e
             /\ \A p \in 1..Len(ids), j \in 1..e :
                  out[(p - 1) * e + j] = table[ids[p] * e + j]
             /\ other.err = ""
             /\ other.g[other.v["output"]].shape = graph[ret].shape
             /\ Eval(other.g, other.v["output"], feeds) = out

\* the one-hot strategy looked up a grid holding two different ids in a
\* table wider than one column
LookupStrategiesAgreeWitness ==
  /\ entry = "embedding_lookup"
  /\ pc = "done"
  /\ args.use_one_hot_embeddings
  /\ args.embedding_size > 1
  /\ \E p, q \in DOMAIN feeds["input_ids"] :
       feeds["input_ids"][p] # feeds["input_ids"][q]
  /\ \E k \in DOMAIN graph : graph[k].op = "one_hot"

---------------------------------------------------------------------------
(* create_attention_mask_from_input_mask (modeling.py, lines 559-597). *)

\* create_attention_mask_from_input_mask with the validity row laid along
\* the from axis: to_mask as [batch, to_seq_length, 1], ones as [batch, 1, from_seq_length]
create_attention_mask_from_input_mask_rows(c, dst, from_tensor, to_mask) ==
  LET from_rank(z) == assert_rank(z, "from_tensor", {2, 3})
      to_rank(z)   == assert_rank(z, "to_mask", {2})
      reshape(z)   == LET from_shape == get_shape_list(z, "from_tensor")
                          to_shape   == get_shape_list(z, "to_mask")
                      IN  tf_reshape(z, "to_mask", "to_mask",
                                     <<from_shape[1], to_shape[2], 1>>)
      cast(z)      == tf_cast(z, "to_mask", "to_mask")
      ones(z)      == LET from_shape == get_shape_list(z, "from_tensor")
                      IN  tf_ones(z, "broadcast_ones", <<from_shape[1], 1, from_shape[2]>>)
      mul(z)       == tf_binary(z, "mask", "mul", "broadcast_ones", "to_mask")
  IN  IF c.err # "" THEN c
      ELSE Leave(mul(ones(cast(reshape(to_rank(from_rank(
                   Enter(c, [from_tensor |-> c.v[from_tensor],
                             to_mask |-> c.v[to_mask]]))))))),
                 c, <<dst>>, <<"mask">>)

\* dst = create_attention_mask_from_input_mask(from_tensor, to_mask)
create_attention_mask_from_input_mask(c, dst, from_tensor, to_mask) ==
  LET from_rank(z) == assert_rank(z, "from_tensor", {2, 3})
      to_rank(z)   == assert_rank(z, "to_mask", {2})
      reshape(z)   == LET from_shape == get_shape_list(z, "from_tensor")
                          to_shape   == get_shape_list(z, "to_mask")
                      IN  tf_reshape(z, "to_mask", "to_mask",
                                     <<from_shape[1], 1, to_shape[2]>>)
      cast(z)      == tf_cast(z, "to_mask", "to_mask")
      ones(z)      == LET from_shape == get_shape_list(z, "from_tensor")
                      IN  tf_ones(z, "broadcast_ones", <<from_shape[1], from_shape[2], 1>>)
      mul(z)       == tf_binary(z, "mask", "mul", "broadcast_ones", "to_mask")
  IN  IF c.err # "" THEN c
      ELSE Leave(mul(ones(cast(reshape(to_rank(from_rank(
                   Enter(c, [from_tensor |-> c.v[from_tensor],
                             to_mask |-> c.v[to_mask]]))))))),
                 c, <<dst>>, <<"mask">>)

\* longest to-side mask row
MaxMaskLen == 5

\* validity masks of a padded batch: row b has its first n[b] entries set
\* (or, inverted, its first n[b] entries cleared)
PaddedMasks(b, t) ==
  {[k \in 1..(b * t) |->
      IF (((k - 1) % t) < n[((k - 1) \div t) + 1]) = lead THEN 1 ELSE 0] :
     n \in [1..b -> 0..t], lead \in BOOLEAN}

InitMask ==
  \E b \in 1..MaxDim, f \in 1..MaxDim, t \in 1..MaxMaskLen,
     fs \in {<<>>} \cup {<<w>> : w \in 1..MaxDim} :
    \E mask \in PaddedMasks(b, t) :
      InitCall("create_attention_mask_from_input_mask",
               [from_tensor |-> 1, to_mask |-> 2],
               <<Node("placeholder", "from_tensor", <<b, f>> \o fs, <<>>, <<>>),
                 Node("placeholder", "to_mask", <<b, t>>, <<>>, <<>>)>>,
               [x \in {"to_mask"} |-> mask])

CreateAttentionMask ==
  /\ entry = "create_attention_mask_from_input_mask"
  /\ pc = "call"
  /\ Finish(create_attention_mask_from_input_mask(
              Ctx(graph, <<>>, [from_tensor |-> args.from_tensor,
                                to_mask |-> args.to_mask]),
              "mask", "from_tensor", "to_mask"),
            "mask", "done")
  /\ UNCHANGED <<entry, args, heap, feeds, self, loc, st>>

NextMask == CreateAttentionMask

SpecMask == InitMask /\ [][NextMask]_vars

\* C7: the mask returned has shape [batch, from_seq_length, to_seq_length]
\* and mask[b][f][t] = to_mask[b][t]: every from-row of a batch element is
\* that element's to-side validity row.
AttentionMaskRows ==
  entry = "create_attention_mask_from_input_mask" =>
    /\ err = ""
    /\ pc = "done" =>
         LET b_n  == graph[args.from_tensor].shape[1]
             f_n  == graph[args.from_tensor].shape[2]
             t_n  == graph[args.to_mask].shape[2]
             mask == Eval(graph, ret, feeds)
         IN  /\ graph[ret].shape = <<b_n, f_n, t_n>>
             /\ Len(mask) = b_n * f_n * t_n
             /\ \A b \in 0..(b_n - 1), f \in 0..(f_n - 1), t \in 0..(t_n - 1) :
                  mask[(b * f_n + f) * t_n + t + 1] = feeds["to_mask"][b * t_n + t + 1]

\* the mask of to_mask = [1,1,1,0,0] was built for two from-positions
AttentionMaskRowsWitness ==
  /\ entry = "create_attention_mask_from_input_mask"
  /\ pc = "done"
  /\ graph[args.from_tensor].shape[2] = 2
  /\ graph[args.to_mask].shape = <<1, 5>>
  /\ feeds["to_mask"] = <<1, 1, 1, 0, 0>>
  /\ Eval(graph, ret, feeds) = <<1, 1, 1, 0, 0, 1, 1, 1, 0, 0>>

---------------------------------------------------------------------------
(* dropout, layer_norm (modeling.py, lines 357-390). *)

\* dropout_prob = None
NoRate == -1

\* dst = tf.nn.dropout(x, keep_prob), keep_prob a Python float given in
\* percent: a keep_prob outside (0, 1] is rejected when the op is built
tf_nn_dropout(c, dst, x, keep_prob) ==
  IF c.err # "" THEN c
  ELSE IF ~(0 < keep_prob /\ keep_prob <= 100)
       THEN Raise(c, "ValueError: keep_prob must be in the range (0, 1]")
       ELSE Emit(c, dst, Node("dropout", "", ShapeOf(c, x), <<c.v[x]>>, <<keep_prob>>))

\* dropout without the shortcut for rate 0.0
dropout_always(c, dst, input_tensor, dropout_prob) ==
  LET apply(z)  == IF dropout_prob = NoRate
                   THEN Bind(z, dst, z.v[input_tensor])
                   ELSE tf_nn_dropout(z, dst, input_tensor, 100 - dropout_prob)
      record(z) == IF z.err # "" THEN z
                   ELSE [z EXCEPT !.drops = Append(@, [rate |-> dropout_prob,
                                                       scope |-> JoinPath(z.scope),
                                                       input |-> c.v[input_tensor],
                                                       output |-> z.v[dst]])]
  IN  IF c.err # "" THEN c ELSE record(apply(c))

\* dst = dropout(input_tensor, dropout_prob), dropout_prob in percent: the
\* input itself for None and 0.0, else tf.nn.dropout with keep_prob =
\* 1 - dropout_prob.  Every call is recorded in drops with the scope it was made in.
dropout(c, dst, input_tensor, dropout_prob) ==
  LET apply(z)  == IF dropout_prob = NoRate \/ dropout_prob = 0
                   THEN Bind(z, dst, z.v[input_tensor])
                   ELSE tf_nn_dropout(z, dst, input_tensor, 100 - dropout_prob)
      record(z) == IF z.err # "" THEN z
                   ELSE [z EXCEPT !.drops = Append(@, [rate |-> dropout_prob,
                                                       scope |-> JoinPath(z.scope),
                                                       input |-> c.v[input_tensor],
                                                       output |-> z.v[dst]])]
  IN  IF c.err # "" THEN c ELSE record(apply(c))

\* dst = layer_norm(input_tensor, name): tf.contrib.layers.layer_norm over
\* the last axis; declares beta and gamma in the scope name (default "LayerNorm")
layer_norm(c, dst, input_tensor, name) ==
  LET open(z)  == variable_scope(z, IF name = "" THEN DefaultScope(z, "LayerNorm", "beta")
                                    ELSE name)
      beta(z)  == get_variable(z, "LayerNorm.beta", "beta", <<Last(ShapeOf(z, input_tensor))>>)
      gamma(z) == get_variable(z, "LayerNorm.gamma", "gamma", <<Last(ShapeOf(z, input_tensor))>>)
      apply(z) == Emit(z, dst, Node("layer_norm", "", ShapeOf(z, input_tensor),
                                    <<z.v[input_tensor], z.v["LayerNorm.beta"],
                                      z.v["LayerNorm.gamma"]>>, <<>>))
  IN  IF c.err # "" THEN c ELSE end_scope(apply(gamma(beta(open(c)))))

\* dst = layer_norm_and_dropout(input_tensor, dropout_prob, name)
layer_norm_and_dropout(c, dst, input_tensor, dropout_prob, name) ==
  LET norm(z) == layer_norm(z, "output_tensor", "input_tensor", name)
      drop(z) == dropout(z, "output_tensor", "output_tensor", dropout_prob)
  IN  IF c.err # "" THEN c
      ELSE Leave(drop(norm(Enter(c, [input_tensor |-> c.v[input_tensor]]))),
                 c, <<dst>>, <<"output_tensor">>)

---------------------------------------------------------------------------
(* embedding_postprocessor (modeling.py, lines 450-556). *)

\* dst = embedding_postprocessor(input_tensor, ...); token_type_ids is a
\* local of the caller that may hold None
embedding_postprocessor(c, dst, input_tensor, use_token_type, token_type_ids, token_type_vocab_size, token_type_embedding_name, use_position_embeddings, position_embedding_name, max_position_embeddings, dropout_prob) ==
  LET input_shape == get_shape_list(c, input_tensor)
      batch_size  == input_shape[1]
      seq_length  == input_shape[2]
      width       == input_shape[3]
      rank(z)     == assert_rank(z, "input_tensor", {3})
      output(z)   == Bind(z, "output", z.v["input_tensor"])
      \* if use_token_type:
      given(z)    == IF z.v["token_type_ids"] = None
                     THEN Raise(z, "ValueError: token_type_ids must be specified")
                     ELSE z
      t_table(z)  == get_variable(z, "token_type_table", token_type_embedding_name,
                                  <<token_type_vocab_size, width>>)
      t_flat(z)   == tf_reshape(z, "flat_token_type_ids", "token_type_ids", <<-1>>)
      t_hot(z)    == tf_one_hot(z, "one_hot_ids", "flat_token_type_ids",
                                token_type_vocab_size)
      t_mul(z)    == tf_matmul(z, "token_type_embeddings", "one_hot_ids",
                               "token_type_table", FALSE)
      t_shape(z)  == tf_reshape(z, "token_type_embeddings", "token_type_embeddings",
                                <<batch_size, seq_length, width>>)
      t_add(z)    == tf_binary(z, "output", "add", "output", "token_type_embeddings")
      types(z)    == IF z.err = "" /\ use_token_type
                     THEN t_add(t_shape(t_mul(t_hot(t_flat(t_table(given(z)))))))
                     ELSE z
      \* if use_position_embeddings:
      p_assert(z) == assert_less_equal(z, seq_length, max_position_embeddings)
      p_table(z)  == get_variable(z, "full_position_embeddings", position_embedding_name,
                                  <<max_position_embeddings, width>>)
      p_slice(z)  == tf_slice(z, "position_embeddings", "full_position_embeddings",
                              seq_length)
      p_shape(z)  == LET num_dims == Ndims(z, "output")
                         position_broadcast_shape ==
                           [i \in 1..(num_dims - 2) |-> 1] \o <<seq_length, width>>
                     IN  tf_reshape(z, "position_embeddings", "position_embeddings",
                                    position_broadcast_shape)
      p_add(z)    == tf_binary(z, "output", "add", "output", "position_embeddings")
      positions(z) == IF z.err = "" /\ use_position_embeddings
                      THEN p_add(p_shape(p_slice(p_table(p_assert(z)))))
                      ELSE z
      norm(z)     == layer_norm_and_dropout(z, "output", "output", dropout_prob, "")
  IN  IF c.err # "" THEN c
      ELSE Leave(norm(positions(types(output(rank(
                   Enter(c, [input_tensor |-> c.v[input_tensor],
                             token_type_ids |-> c.v[token_type_ids]])))))),
                 c, <<dst>>, <<"output">>)

\* largest max_position_embeddings
MaxPos == 3

PostArgs ==
  {[input_tensor |-> 1, use_token_type |-> utt, token_type_ids |-> tti,
    token_type_vocab_size |-> 2, token_type_embedding_name |-> "token_type_embeddings",
    use_position_embeddings |-> upe, position_embedding_name |-> "position_embeddings",
    max_position_embeddings |-> m, dropout_prob |-> dp] :
     utt \in BOOLEAN, tti \in {None, 2}, upe \in BOOLEAN, m \in 1..MaxPos,
     dp \in {NoRate, 0, 10}}

\* the values fed to an embedding_postprocessor call on a [b, sq, w] input
\* with a position table of m rows
PostFeeds(b, sq, w, m, fill, ids) ==
  [x \in {"input_tensor", "token_type_ids", "token_type_embeddings",
          "position_embeddings"} |->
     CASE x = "input_tensor" -> Fill(b * sq * w, fill)
       [] x = "token_type_ids" -> ids
       [] x = "token_type_embeddings" -> Fill(2 * w, 2)
       [] x = "position_embeddings" -> Fill(m * w, 3)]

InitPost ==
  \E b \in 1..MaxDim, sq \in 1..MaxDim, w \in 1..MaxDim, a \in PostArgs, fill \in Fills :
    \E ids \in IdFills(b * sq, 2) :
      InitCall("embedding_postprocessor", a,
               <<Node("placeholder", "input_tensor", <<b, sq, w>>, <<>>, <<>>),
                 Node("placeholder", "token_type_ids", <<b, sq>>, <<>>, <<>>)>>,
               PostFeeds(b, sq, w, a.max_position_embeddings, fill, ids))

CallPostprocessor(c, a) ==
  embedding_postprocessor(c, "output", "input_tensor", a.use_token_type, "token_type_ids",
                          a.token_type_vocab_size, a.token_type_embedding_name,
                          a.use_position_embeddings, a.position_embedding_name,
                          a.max_position_embeddings, a.dropout_prob)

\* the caller's locals at the call
PostLocals(a) == [input_tensor |-> a.input_tensor, token_type_ids |-> a.token_type_ids]

EmbeddingPostprocessor ==
  /\ entry = "embedding_postprocessor"
  /\ pc = "call"
  /\ Finish(CallPostprocessor(Ctx(graph, <<>>, PostLocals(args)), args), "output", "done")
  /\ UNCHANGED <<entry, args, heap, feeds, self, loc, st>>

NextPost == EmbeddingPostprocessor

SpecPost == InitPost /\ [][NextPost]_vars

AssertError == "InvalidArgumentError: assert_less_equal"

\* C9: with position embeddings enabled, embedding_postprocessor fails
\* whenever the sequence length exceeds max_position_embeddings (with the
\* assertion's error, unless the missing segment ids were reported first), and
\* never fails for that reason when it does not exceed it.
PositionLimit ==
  (entry = "embedding_postprocessor" /\ pc # "call") =>
    LET seq_length == graph[args.input_tensor].shape[2]
        too_long   == seq_length > args.max_position_embeddings
        no_ids     == args.use_token_type /\ args.token_type_ids = None
    IN  /\ (args.use_position_embeddings /\ too_long) => pc = "failed"
        /\ (args.use_position_embeddings /\ too_long /\ ~no_ids) => err = AssertError
        /\ (~args.use_position_embeddings \/ ~too_long) => err # AssertError

\* a call with a sequence longer than the position table has failed
PositionLimitWitness ==
  /\ entry = "embedding_postprocessor"
  /\ pc = "failed"
  /\ err = AssertError
  /\ graph[args.input_tensor].shape[2] = args.max_position_embeddings + 1

\* the tensor handed to layer normalization: the post-processor's sum
PreNorm(g) == g[CHOOSE k \in DOMAIN g : g[k].op = "layer_norm"].inputs[1]

\* C10: position s receives row s of the position table, for every batch
\* element, so the sum handed to normalization is the same for any larger
\* table that agrees with this one on its rows.
PositionPrefixStable ==
  (entry = "embedding_postprocessor" /\ pc = "done" /\ args.use_position_embeddings) =>
    LET shape == graph[args.input_tensor].shape
        sq    == shape[2]
        w     == shape[3]
        m1    == args.max_position_embeddings
        out   == Eval(graph, PreNorm(graph), feeds)
        types == feeds["token_type_embeddings"]
        posn  == feeds["position_embeddings"]
    IN  /\ graph[PreNorm(graph)].shape = shape
        /\ \A b \in 0..(shape[1] - 1), s \in 0..(sq - 1), j \in 1..w :
             out[(b * sq + s) * w + j] =
               feeds["input_tensor"][(b * sq + s) * w + j]
               + (IF args.use_token_type
                  THEN types[feeds["token_type_ids"][b * sq + s + 1] * w + j] ELSE 0)
               + posn[s * w + j]
        /\ \A m2 \in m1..(MaxPos + 1), fill \in Fills :
             LET other == CallPostprocessor(Ctx(SubSeq(graph, 1, 2), <<>>, PostLocals(args)),
                                            [args EXCEPT !.max_position_embeddings = m2])
                 fd2   == [feeds EXCEPT !["position_embeddings"] =
                                           @ \o Fill((m2 - m1) * w, fill)]
             IN  /\ other.err = ""
                 /\ Eval(other.g, PreNorm(other.g), fd2) = out

\* a batch of two sequences shorter than the position table was processed
PositionPrefixStableWitness ==
  /\ entry = "embedding_postprocessor"
  /\ pc = "done"
  /\ args.use_position_embeddings
  /\ graph[args.input_tensor].shape[1] = 2
  /\ graph[args.input_tensor].shape[2] = 2
  /\ args.max_position_embeddings > 2

---------------------------------------------------------------------------
(* attention_layer (modeling.py, lines 600-846). *)

\* the argument check with to_seq_length left out of the rank-2 test
attention_shapes_two_hints(c, from_tensor, to_tensor, batch_size, from_seq_length, to_seq_length) ==
  LET from_rank(z) == assert_rank(z, from_tensor, {2, 3})
      to_rank(z)   == assert_rank(z, to_tensor, {2, 3})
      same(z)      == IF z.err = "" /\ Ndims(z, from_tensor) # Ndims(z, to_tensor)
                      THEN Raise(z, "ValueError: rank of from_tensor must match rank of to_tensor")
                      ELSE z
      hints(z)     == IF z.err = "" /\ Ndims(z, from_tensor) = 2
                         /\ (batch_size = None \/ from_seq_length = None)
                      THEN Raise(z, "ValueError: batch_size, from_seq_length, to_seq_length must all be specified")
                      ELSE z
  IN  hints(same(to_rank(from_rank(c))))

\* lines 704-722: the checks of the ranks and of the hints
attention_shapes(c, from_tensor, to_tensor, batch_size, from_seq_length, to_seq_length) ==
  LET from_rank(z) == assert_rank(z, from_tensor, {2, 3})
      to_rank(z)   == assert_rank(z, to_tensor, {2, 3})
      same(z)      == IF z.err = "" /\ Ndims(z, from_tensor) # Ndims(z, to_tensor)
                      THEN Raise(z, "ValueError: rank of from_tensor must match rank of to_tensor")
                      ELSE z
      hints(z)     == IF z.err = "" /\ Ndims(z, from_tensor) = 2
                         /\ (batch_size = None \/ from_seq_length = None
                             \/ to_seq_length = None)
                      THEN Raise(z, "ValueError: batch_size, from_seq_length, to_seq_length must all be specified")
                      ELSE z
  IN  hints(same(to_rank(from_rank(c))))

\* dst = transpose_for_scores(input_tensor, ...)
transpose_for_scores(c, dst, input_tensor, batch_size, num_attention_heads, seq_length, width) ==
  LET reshape(z)   == tf_reshape(z, "output_tensor", "input_tensor",
                                 <<batch_size, seq_length, num_attention_heads, width>>)
      transpose(z) == tf_transpose(z, "output_tensor", "output_tensor", <<0, 2, 1, 3>>)
  IN  IF c.err # "" THEN c
      ELSE Leave(transpose(reshape(Enter(c, [input_tensor |-> c.v[input_tensor]]))),
                 c, <<dst>>, <<"output_tensor">>)

\* attention_layer with the adder of the mask added before the scaling
attention_layer_bias_scaled(c, dst, a) ==
  LET from_shape == get_shape_list(c, a.from_tensor)
      to_shape   == get_shape_list(c, a.to_tensor)
      rank3      == Len(from_shape) = 3
      batch_size      == IF rank3 THEN from_shape[1] ELSE a.batch_size
      from_seq_length == IF rank3 THEN from_shape[2] ELSE a.from_seq_length
      to_seq_length   == IF rank3 THEN to_shape[2] ELSE a.to_seq_length
      n_h == a.num_attention_heads
      h_w == a.size_per_head
      shapes(z)  == attention_shapes(z, "from_tensor", "to_tensor", a.batch_size,
                                     a.from_seq_length, a.to_seq_length)
      from_2d(z) == reshape_to_matrix(z, "from_tensor_2d", "from_tensor")
      to_2d(z)   == reshape_to_matrix(z, "to_tensor_2d", "to_tensor")
      query(z)   == tf_layers_dense(z, "query_layer", "from_tensor_2d", n_h * h_w,
                                    a.query_act, "query")
      key(z)     == tf_layers_dense(z, "key_layer", "to_tensor_2d", n_h * h_w,
                                    a.key_act, "key")
      value(z)   == tf_layers_dense(z, "value_layer", "to_tensor_2d", n_h * h_w,
                                    a.value_act, "value")
      query_t(z) == transpose_for_scores(z, "query_layer", "query_layer", batch_size,
                                         n_h, from_seq_length, h_w)
      key_t(z)   == transpose_for_scores(z, "key_layer", "key_layer", batch_size,
                                         n_h, to_seq_length, h_w)
      scores(z)  == tf_matmul(z, "attention_scores", "query_layer", "key_layer", TRUE)
      scale(z)   == tf_unary(z, "attention_scores", "scale", "attention_scores", <<h_w>>)
      \* if attention_mask is not None:
      m_expand(z) == tf_expand_dims(z, "attention_mask", "attention_mask", 1)
      m_cast(z)   == tf_cast(z, "adder", "attention_mask")
      m_minus(z)  == tf_unary(z, "adder", "one_minus", "adder", <<>>)
      m_times(z)  == tf_unary(z, "adder", "times", "adder", <<-10000>>)
      m_add(z)    == tf_binary(z, "attention_scores", "add", "attention_scores", "adder")
      mask(z)    == IF z.err = "" /\ z.v["attention_mask"] # None
                    THEN m_add(m_times(m_minus(m_cast(m_expand(z)))))
                    ELSE z
      probs(z)   == tf_unary(z, "attention_probs", "softmax", "attention_scores", <<>>)
      drop(z)    == dropout(z, "attention_probs", "attention_probs",
                            a.attention_probs_dropout_prob)
      value_r(z) == tf_reshape(z, "value_layer", "value_layer",
                               <<batch_size, to_seq_length, n_h, h_w>>)
      value_t(z) == tf_transpose(z, "value_layer", "value_layer", <<0, 2, 1, 3>>)
      context(z) == tf_matmul(z, "context_layer", "attention_probs", "value_layer", FALSE)
      context_t(z) == tf_transpose(z, "context_layer", "context_layer", <<0, 2, 1, 3>>)
      result(z)  == IF a.do_return_2d_tensor
                    THEN tf_reshape(z, "context_layer", "context_layer",
                                    <<batch_size * from_seq_length, n_h * h_w>>)
                    ELSE tf_reshape(z, "context_layer", "context_layer",
                                    <<batch_size, from_seq_length, n_h * h_w>>)
  IN  IF c.err # "" THEN c
      ELSE Leave(result(context_t(context(value_t(value_r(drop(probs(scale(mask(scores(
                   key_t(query_t(value(key(query(to_2d(from_2d(shapes(
                     Enter(c, [from_tensor |-> c.v[a.from_tensor],
                               to_tensor |-> c.v[a.to_tensor],
                               attention_mask |-> c.v[a.attention_mask]])
                   )))))))))))))))))),
                 c, <<dst>>, <<"context_layer">>)

\* dst = attention_layer(...); a is the record of the arguments, its fields
\* from_tensor, to_tensor and attention_mask naming locals of the caller
\* (attention_mask may hold None)
attention_layer(c, dst, a) ==
  LET from_shape == get_shape_list(c, a.from_tensor)
      to_shape   == get_shape_list(c, a.to_tensor)
      rank3      == Len(from_shape) = 3
      batch_size      == IF rank3 THEN from_shape[1] ELSE a.batch_size
      from_seq_length == IF rank3 THEN from_shape[2] ELSE a.from_seq_length
      to_seq_length   == IF rank3 THEN to_shape[2] ELSE a.to_seq_length
      n_h == a.num_attention_heads
      h_w == a.size_per_head
      shapes(z)  == attention_shapes(z, "from_tensor", "to_tensor", a.batch_size,
                                     a.from_seq_length, a.to_seq_length)
      from_2d(z) == reshape_to_matrix(z, "from_tensor_2d", "from_tensor")
      to_2d(z)   == reshape_to_matrix(z, "to_tensor_2d", "to_tensor")
      query(z)   == tf_layers_dense(z, "query_layer", "from_tensor_2d", n_h * h_w,
                                    a.query_act, "query")
      key(z)     == tf_layers_dense(z, "key_layer", "to_tensor_2d", n_h * h_w,
                                    a.key_act, "key")
      value(z)   == tf_layers_dense(z, "value_layer", "to_tensor_2d", n_h * h_w,
                                    a.value_act, "value")
      query_t(z) == transpose_for_scores(z, "query_layer", "query_layer", batch_size,
                                         n_h, from_seq_length, h_w)
      key_t(z)   == transpose_for_scores(z, "key_layer", "key_layer", batch_size,
                                         n_h, to_seq_length, h_w)
      scores(z)  == tf_matmul(z, "attention_scores", "query_layer", "key_layer", TRUE)
      scale(z)   == tf_unary(z, "attention_scores", "scale", "attention_scores", <<h_w>>)
      \* if attention_mask is not None:
      m_expand(z) == tf_expand_dims(z, "attention_mask", "attention_mask", 1)
      m_cast(z)   == tf_cast(z, "adder", "attention_mask")
      m_minus(z)  == tf_unary(z, "adder", "one_minus", "adder", <<>>)
      m_times(z)  == tf_unary(z, "adder", "times", "adder", <<-10000>>)
      m_add(z)    == tf_binary(z, "attention_scores", "add", "attention_scores", "adder")
      mask(z)    == IF z.err = "" /\ z.v["attention_mask"] # None
                    THEN m_add(m_times(m_minus(m_cast(m_expand(z)))))
                    ELSE z
      probs(z)   == tf_unary(z, "attention_probs", "softmax", "attention_scores", <<>>)
      drop(z)    == dropout(z, "attention_probs", "attention_probs",
                            a.attention_probs_dropout_prob)
      value_r(z) == tf_reshape(z, "value_layer", "value_layer",
                               <<batch_size, to_seq_length, n_h, h_w>>)
      value_t(z) == tf_transpose(z, "value_layer", "value_layer", <<0, 2, 1, 3>>)
      context(z) == tf_matmul(z, "context_layer", "attention_probs", "value_layer", FALSE)
      context_t(z) == tf_transpose(z, "context_layer", "context_layer", <<0, 2, 1, 3>>)
      result(z)  == IF a.do_return_2d_tensor
                    THEN tf_reshape(z, "context_layer", "context_layer",
                                    <<batch_size * from_seq_length, n_h * h_w>>)
                    ELSE tf_reshape(z, "context_layer", "context_layer",
                                    <<batch_size, from_seq_length, n_h * h_w>>)
  IN  IF c.err # "" THEN c
      ELSE Leave(result(context_t(context(value_t(value_r(drop(probs(mask(scale(scores(
                   key_t(query_t(value(key(query(to_2d(from_2d(shapes(
                     Enter(c, [from_tensor |-> c.v[a.from_tensor],
                               to_tensor |-> c.v[a.to_tensor],
                               attention_mask |-> c.v[a.attention_mask]])
                   )))))))))))))))))),
                 c, <<dst>>, <<"context_layer">>)

\* largest number of attention heads
MaxHeads == 2

\* the hints a caller may pass for a [b, f] x [b, t] attention: each one
\* omitted or right, or one of them wrong
Hints(b, f, t) ==
  {<<hb, hf, ht>> : hb \in {None, b}, hf \in {None, f}, ht \in {None, t}}
    \cup {<<b + 1, f, t>>, <<b, f + 1, t>>, <<b, f, t + 1>>}

InitAttention ==
  \E b \in 1..MaxDim, f \in 1..MaxDim, t \in 1..MaxDim, n \in 1..MaxHeads, h \in {1, 2},
     from3 \in BOOLEAN, to3 \in BOOLEAN, mask \in {None, 3}, r2 \in BOOLEAN, dp \in {0, 10} :
    \E hint \in Hints(b, f, t) :
      InitCall("attention_layer",
               [from_tensor |-> 1, to_tensor |-> 2, attention_mask |-> mask,
                num_attention_heads |-> n, size_per_head |-> h,
                query_act |-> "", key_act |-> "", value_act |-> "",
                attention_probs_dropout_prob |-> dp, do_return_2d_tensor |-> r2,
                batch_size |-> hint[1], from_seq_length |-> hint[2],
                to_seq_length |-> hint[3]],
               <<Node("placeholder", "from_tensor",
                      IF from3 THEN <<b, f, 2>> ELSE <<b * f, 2>>, <<>>, <<>>),
                 Node("placeholder", "to_tensor",
                      IF to3 THEN <<b, t, 2>> ELSE <<b * t, 2>>, <<>>, <<>>),
                 Node("placeholder", "attention_mask", <<b, f, t>>, <<>>, <<>>)>>,
               <<>>)

AttentionLayer ==
  /\ entry = "attention_layer"
  /\ pc = "call"
  /\ Finish(attention_layer(
              Ctx(graph, <<>>, [from_tensor |-> args.from_tensor,
                                to_tensor |-> args.to_tensor,
                                attention_mask |-> args.attention_mask]),
              "context_layer",
              [args EXCEPT !.from_tensor = "from_tensor", !.to_tensor = "to_tensor",
                           !.attention_mask = "attention_mask"]),
            "context_layer", "done")
  /\ UNCHANGED <<entry, args, heap, feeds, self, loc, st>>

NextAttention == AttentionLayer

SpecAttention == InitAttention /\ [][NextAttention]_vars

RankMismatchError == "ValueError: rank of from_tensor must match rank of to_tensor"

MissingHintsError ==
  "ValueError: batch_size, from_seq_length, to_seq_length must all be specified"

\* C8: attention_layer raises, with no projection declared, when the ranks
\* of from_tensor and to_tensor differ and when both are rank 2 and one of
\* batch_size, from_seq_length, to_seq_length is omitted; with rank-3 inputs
\* it does not raise for missing hints (nor at all), whatever hints are passed.
AttentionArgumentErrors ==
  (entry = "attention_layer" /\ pc # "call") =>
    LET from_rank == Len(graph[args.from_tensor].shape)
        to_rank   == Len(graph[args.to_tensor].shape)
        omitted   == None \in {args.batch_size, args.from_seq_length, args.to_seq_length}
    IN  /\ from_rank # to_rank =>
             /\ pc = "failed"
             /\ err = RankMismatchError
             /\ VariableNames(graph) = {}
        /\ (from_rank = 2 /\ to_rank = 2 /\ omitted) =>
             /\ pc = "failed"
             /\ err = MissingHintsError
             /\ VariableNames(graph) = {}
        /\ (from_rank = 3 /\ to_rank = 3) =>
             /\ pc = "done"
             /\ err = ""

\* a rank-2 call without to_seq_length has failed
AttentionArgumentErrorsWitness ==
  /\ entry = "attention_layer"
  /\ pc = "failed"
  /\ Len(graph[args.from_tensor].shape) = 2
  /\ Len(graph[args.to_tensor].shape) = 2
  /\ args.batch_size # None
  /\ args.from_seq_length # None
  /\ args.to_seq_length = None
  /\ err = MissingHintsError

---------------------------------------------------------------------------
(* transformer_model (modeling.py, lines 849-1004). *)

HeadsError == "ValueError: hidden size is not a multiple of the number of attention heads"

WidthError == "ValueError: width of the input tensor != hidden size"

\* the checks without the test of hidden_size % num_attention_heads
transformer_check_width_only(c, input_tensor, hidden_size, num_attention_heads) ==
  LET heads(z) == IF num_attention_heads = 0 THEN Raise(z, "ZeroDivisionError")
                  ELSE z
      rank(z)  == assert_rank(z, input_tensor, {3})
      width(z) == IF z.err = "" /\ get_shape_list(z, input_tensor)[3] # hidden_size
                  THEN Raise(z, WidthError)
                  ELSE z
  IN  width(rank(heads(c)))

\* lines 901-919: the checks transformer_model makes before it builds anything
\* (x % 0 raises ZeroDivisionError in Python)
transformer_check(c, input_tensor, hidden_size, num_attention_heads) ==
  LET heads(z) == IF num_attention_heads = 0 THEN Raise(z, "ZeroDivisionError")
                  ELSE IF hidden_size % num_attention_heads # 0 THEN Raise(z, HeadsError)
                  ELSE z
      rank(z)  == assert_rank(z, input_tensor, {3})
      width(z) == IF z.err = "" /\ get_shape_list(z, input_tensor)[3] # hidden_size
                  THEN Raise(z, WidthError)
                  ELSE z
  IN  width(rank(heads(c)))

\* lines 921-930 alone: no check before the input is made a matrix
transformer_begin_unchecked(c, a) ==
  LET matrix(z) == reshape_to_matrix(z, "prev_output", "input_tensor")
  IN  matrix(c)

\* lines 901-930: the checks, then prev_output = reshape_to_matrix(input_tensor)
transformer_begin(c, a) ==
  LET check(z)  == transformer_check(z, "input_tensor", a.hidden_size,
                                     a.num_attention_heads)
      matrix(z) == reshape_to_matrix(z, "prev_output", "input_tensor")
  IN  matrix(check(c))

\* a layer whose second residual is the layer input
transformer_layer_input_residual(c, layer_idx, a) ==
  LET input_shape == get_shape_list(c, "input_tensor")
      batch_size  == input_shape[1]
      seq_length  == input_shape[2]
      attention_head_size == a.hidden_size \div a.num_attention_heads
      layer(z)     == variable_scope(z, "layer_" \o ToString(layer_idx))
      input(z)     == Bind(z, "layer_input", z.v["prev_output"])
      attention(z) == variable_scope(z, "attention")
      self_(z)     == variable_scope(z, "self")
      head(z)      == attention_layer(z, "attention_head",
                        [from_tensor |-> "layer_input", to_tensor |-> "layer_input",
                         attention_mask |-> "attention_mask",
                         num_attention_heads |-> a.num_attention_heads,
                         size_per_head |-> attention_head_size,
                         query_act |-> "", key_act |-> "", value_act |-> "",
                         attention_probs_dropout_prob |-> a.attention_probs_dropout_prob,
                         do_return_2d_tensor |-> TRUE, batch_size |-> batch_size,
                         from_seq_length |-> seq_length, to_seq_length |-> seq_length])
      heads(z)     == Bind(z, "attention_output", z.v["attention_head"])
      output(z)    == variable_scope(z, "output")
      a_dense(z)   == tf_layers_dense(z, "attention_output", "attention_output",
                                      a.hidden_size, "", "")
      a_drop(z)    == dropout(z, "attention_output", "attention_output",
                              a.hidden_dropout_prob)
      a_add(z)     == tf_binary(z, "attention_output", "add", "attention_output",
                                "layer_input")
      a_norm(z)    == layer_norm(z, "attention_output", "attention_output", "")
      intermediate(z) == variable_scope(z, "intermediate")
      i_dense(z)   == tf_layers_dense(z, "intermediate_output", "attention_output",
                                      a.intermediate_size, a.intermediate_act_fn, "")
      o_dense(z)   == tf_layers_dense(z, "layer_output", "intermediate_output",
                                      a.hidden_size, "", "")
      o_drop(z)    == dropout(z, "layer_output", "layer_output", a.hidden_dropout_prob)
      o_add(z)     == tf_binary(z, "layer_output", "add", "layer_output",
                                "layer_input")
      o_norm(z)    == layer_norm(z, "layer_output", "layer_output", "")
      prev(z)      == Bind(z, "prev_output", z.v["layer_output"])
  IN  IF c.err # "" THEN c
      ELSE end_scope(end_scope(prev(o_norm(o_add(o_drop(o_dense(output(
             end_scope(i_dense(intermediate(
               end_scope(end_scope(a_norm(a_add(a_drop(a_dense(output(
                 heads(end_scope(head(self_(attention(input(layer(c)
               ))))))))))))))))))))))))

\* lines 933-994: the body of the loop for layer layer_idx; the locals
\* prev_output and attention_mask are read, layer_output and prev_output set
transformer_layer(c, layer_idx, a) ==
  LET input_shape == get_shape_list(c, "input_tensor")
      batch_size  == input_shape[1]
      seq_length  == input_shape[2]
      attention_head_size == a.hidden_size \div a.num_attention_heads
      layer(z)     == variable_scope(z, "layer_" \o ToString(layer_idx))
      input(z)     == Bind(z, "layer_input", z.v["prev_output"])
      attention(z) == variable_scope(z, "attention")
      self_(z)     == variable_scope(z, "self")
      head(z)      == attention_layer(z, "attention_head",
                        [from_tensor |-> "layer_input", to_tensor |-> "layer_input",
                         attention_mask |-> "attention_mask",
                         num_attention_heads |-> a.num_attention_heads,
                         size_per_head |-> attention_head_size,
                         query_act |-> "", key_act |-> "", value_act |-> "",
                         attention_probs_dropout_prob |-> a.attention_probs_dropout_prob,
                         do_return_2d_tensor |-> TRUE, batch_size |-> batch_size,
                         from_seq_length |-> seq_length, to_seq_length |-> seq_length])
      heads(z)     == Bind(z, "attention_output", z.v["attention_head"])
      output(z)    == variable_scope(z, "output")
      a_dense(z)   == tf_layers_dense(z, "attention_output", "attention_output",
                                      a.hidden_size, "", "")
      a_drop(z)    == dropout(z, "attention_output", "attention_output",
                              a.hidden_dropout_prob)
      a_add(z)     == tf_binary(z, "attention_output", "add", "attention_output",
                                "layer_input")
      a_norm(z)    == layer_norm(z, "attention_output", "attention_output", "")
      intermediate(z) == variable_scope(z, "intermediate")
      i_dense(z)   == tf_layers_dense(z, "intermediate_output", "attention_output",
                                      a.intermediate_size, a.intermediate_act_fn, "")
      o_dense(z)   == tf_layers_dense(z, "layer_output", "intermediate_output",
                                      a.hidden_size, "", "")
      o_drop(z)    == dropout(z, "layer_output", "layer_output", a.hidden_dropout_prob)
      o_add(z)     == tf_binary(z, "layer_output", "add", "layer_output",
                                "attention_output")
      o_norm(z)    == layer_norm(z, "layer_output", "layer_output", "")
      prev(z)      == Bind(z, "prev_output", z.v["layer_output"])
  IN  IF c.err # "" THEN c
      ELSE end_scope(end_scope(prev(o_norm(o_add(o_drop(o_dense(output(
             end_scope(i_dense(intermediate(
               end_scope(end_scope(a_norm(a_add(a_drop(a_dense(output(
                 heads(end_scope(head(self_(attention(input(layer(c)
               ))))))))))))))))))))))))

\* the name of final_outputs[i] among the locals
FinalOutput(i) == "final_outputs." \o ToString(i)

\* lines 998-1000: final_outputs[i] = reshape_from_matrix(layer_output, input_shape)
\* for the layer outputs outs[1..n]
RECURSIVE reshape_layers(_, _, _)
reshape_layers(c, outs, n) ==
  IF n = 0 THEN c
  ELSE LET before(z)  == reshape_layers(z, outs, n - 1)
           current(z) == Bind(z, "layer_output", outs[n])
           final(z)   == reshape_from_matrix(z, FinalOutput(n - 1), "layer_output",
                                             get_shape_list(z, "input_tensor"))
       IN  final(current(before(c)))

\* transformer_model's return with final_outputs built back to front
transformer_return_reversed(c, all_layer_outputs, do_return_all_layers) ==
  LET all(z)  == reshape_layers(z, all_layer_outputs, Len(all_layer_outputs))
      list(z) == Bind(z, "return", [i \in 1..Len(all_layer_outputs) |->
                                      z.v[FinalOutput(Len(all_layer_outputs) - i)]])
      last(z) == reshape_from_matrix(z, "return", "prev_output",
                                     get_shape_list(z, "input_tensor"))
  IN  IF c.err # "" THEN c
      ELSE IF do_return_all_layers THEN list(all(c)) ELSE last(c)

\* lines 996-1004: the value transformer_model returns, as the local "return"
\* (a list of tensors, or one tensor)
transformer_return(c, all_layer_outputs, do_return_all_layers) ==
  LET all(z)  == reshape_layers(z, all_layer_outputs, Len(all_layer_outputs))
      list(z) == Bind(z, "return", [i \in 1..Len(all_layer_outputs) |->
                                      z.v[FinalOutput(i - 1)]])
      last(z) == reshape_from_matrix(z, "return", "prev_output",
                                     get_shape_list(z, "input_tensor"))
  IN  IF c.err # "" THEN c
      ELSE IF do_return_all_layers THEN list(all(c)) ELSE last(c)

\* the graph-building step ran to context c
Step(c, next) ==
  /\ graph' = c.g
  /\ drops' = drops \o c.drops
  /\ err' = c.err
  /\ pc' = IF c.err = "" THEN next ELSE "failed"

\* the frame of a transformer_model call with arguments a, made in variable
\* scope scope: a.input_tensor and a.attention_mask are tensors
TransformerFrame(a, scope) ==
  [a |-> a, scope |-> scope, layer_idx |-> 0, all_layer_outputs |-> <<>>,
   v |-> [input_tensor |-> a.input_tensor, attention_mask |-> a.attention_mask]]

\* lines 901-930
TransformerBegin ==
  /\ pc = "transformer_model"
  /\ LET c == transformer_begin(Ctx(graph, st.scope, st.v), st.a)
     IN  /\ Step(c, "layers")
         /\ st' = [st EXCEPT !.v = c.v]
  /\ UNCHANGED <<entry, args, heap, feeds, self, loc, ret>>

\* lines 931-994: one iteration of the loop over the layers
TransformerLayer ==
  /\ pc = "layers"
  /\ st.layer_idx < st.a.num_hidden_layers
  /\ LET c == transformer_layer(Ctx(graph, st.scope, st.v), st.layer_idx, st.a)
     IN  /\ Step(c, "layers")
         /\ st' = IF c.err # "" THEN st
                  ELSE [st EXCEPT !.v = c.v, !.layer_idx = @ + 1,
                                  !.all_layer_outputs = Append(@, c.v["layer_output"])]
  /\ UNCHANGED <<entry, args, heap, feeds, self, loc, ret>>

\* lines 996-1004, after the last iteration
TransformerReturn ==
  /\ pc = "layers"
  /\ st.layer_idx >= st.a.num_hidden_layers
  /\ LET c == transformer_return(Ctx(graph, st.scope, st.v), st.all_layer_outputs,
                                 st.a.do_return_all_layers)
     IN  /\ Step(c, "returned")
         /\ ret' = IF c.err = "" THEN c.v["return"] ELSE None
  /\ UNCHANGED <<entry, args, heap, feeds, self, loc, st>>

\* most layers of a stack
MaxLayers == 2

\* the shapes of the input tensor: [2, s, w] and, with the wrong rank,
\* [2 * s, w] and [2, s, 1, w]
TransformerInputs ==
  UNION {{<<2, sq, w>>, <<2 * sq, w>>, <<2, sq, 1, w>>} : sq \in 1..MaxDim, w \in {2, 3}}

InitTransformer ==
  \E shape \in TransformerInputs, mask \in {None, 2}, hidden \in {2, 3},
     heads \in 0..MaxHeads, layers \in 0..MaxLayers, dp \in {<<0, 0>>, <<10, 20>>},
     all \in BOOLEAN :
    /\ InitCall("transformer_model",
                [input_tensor |-> 1, attention_mask |-> mask, hidden_size |-> hidden,
                 num_hidden_layers |-> layers, num_attention_heads |-> heads,
                 intermediate_size |-> 3, intermediate_act_fn |-> "gelu",
                 hidden_dropout_prob |-> dp[1], attention_probs_dropout_prob |-> dp[2],
                 do_return_all_layers |-> all],
                <<Node("placeholder", "input_tensor", shape, <<>>, <<>>),
                  Node("placeholder", "attention_mask",
                       <<shape[1], shape[2], shape[2]>>, <<>>, <<>>)>>,
                <<>>)

\* the call: the frame of the callee
TransformerCall ==
  /\ entry = "transformer_model"
  /\ pc = "call"
  /\ st' = TransformerFrame(args, <<>>)
  /\ pc' = "transformer_model"
  /\ UNCHANGED <<entry, args, heap, graph, feeds, drops, self, loc, ret, err>>

NextTransformer ==
  TransformerCall \/ TransformerBegin \/ TransformerLayer \/ TransformerReturn

SpecTransformer == InitTransformer /\ [][NextTransformer]_vars

\* C1: transformer_model called with hidden_size not a multiple of
\* num_attention_heads fails with the ValueError that names the two values
\* (with ZeroDivisionError for zero heads), and at that point, and ever after,
\* no variable is declared: no query, key, value, output or intermediate
\* projection of any layer.
HeadCountRejected ==
  (entry = "transformer_model" /\ pc \notin {"call", "transformer_model"}) =>
    /\ (args.num_attention_heads # 0
        /\ args.hidden_size % args.num_attention_heads # 0) =>
          /\ pc = "failed"
          /\ err = HeadsError
          /\ VariableNames(graph) = {}
          /\ Len(graph) = 2
    /\ args.num_attention_heads = 0 =>
          /\ pc = "failed"
          /\ VariableNames(graph) = {}

\* a stack of two layers on a well-shaped input of width 3 was refused for
\* its two heads
HeadCountRejectedWitness ==
  /\ entry = "transformer_model"
  /\ pc = "failed"
  /\ err = HeadsError
  /\ args.hidden_size = 3
  /\ args.num_attention_heads = 2
  /\ args.num_hidden_layers = 2
  /\ graph[args.input_tensor].shape = <<2, 2, 3>>

---------------------------------------------------------------------------
(* get_activation (modeling.py, lines 293-327).  Python values are tagged   *)
(* with their type; a string is the sequence of its characters.            *)

PyStr(s) == [type |-> "str", val |-> s]

PyFunction(name) == [type |-> "function", val |-> name]

PyNone == [type |-> "NoneType", val |-> ""]

\* the letters: lower case, upper case
Letters ==
  <<<<"a", "A">>, <<"b", "B">>, <<"c", "C">>, <<"d", "D">>, <<"e", "E">>, <<"f", "F">>,
    <<"g", "G">>, <<"h", "H">>, <<"i", "I">>, <<"j", "J">>, <<"k", "K">>, <<"l", "L">>,
    <<"m", "M">>, <<"n", "N">>, <<"o", "O">>, <<"p", "P">>, <<"q", "Q">>, <<"r", "R">>,
    <<"s", "S">>, <<"t", "T">>, <<"u", "U">>, <<"v", "V">>, <<"w", "W">>, <<"x", "X">>,
    <<"y", "Y">>, <<"z", "Z">>>>

\* str.lower(): every upper-case letter replaced by its lower-case letter
Lower(s) ==
  [i \in DOMAIN s |->
     IF \E k \in DOMAIN Letters : Letters[k][2] = s[i]
     THEN Letters[CHOOSE k \in DOMAIN Letters : Letters[k][2] = s[i]][1]
     ELSE s[i]]

\* the result of a call: the value returned, or the exception raised
Returns(x) == [err |-> "", value |-> x]

Raises(e) == [err |-> e, value |-> PyNone]

\* get_activation without the branch for "linear"
get_activation_no_linear(activation_string) ==
  IF activation_string.type # "str" THEN Returns(activation_string)
  ELSE IF activation_string.val = <<>> THEN Returns(PyNone)
  ELSE LET act == Lower(activation_string.val)
       IN  CASE act = <<"r", "e", "l", "u">> -> Returns(PyFunction("tf.nn.relu"))
             [] act = <<"g", "e", "l", "u">> -> Returns(PyFunction("gelu"))
             [] act = <<"t", "a", "n", "h">> -> Returns(PyFunction("tf.tanh"))
             [] OTHER -> Raises("ValueError: Unsupported activation")

get_activation(activation_string) ==
  IF activation_string.type # "str" THEN Returns(activation_string)
  ELSE IF activation_string.val = <<>> THEN Returns(PyNone)
  ELSE LET act == Lower(activation_string.val)
       IN  CASE act = <<"l", "i", "n", "e", "a", "r">> -> Returns(PyNone)
             [] act = <<"r", "e", "l", "u">> -> Returns(PyFunction("tf.nn.relu"))
             [] act = <<"g", "e", "l", "u">> -> Returns(PyFunction("gelu"))
             [] act = <<"t", "a", "n", "h">> -> Returns(PyFunction("tf.tanh"))
             [] OTHER -> Raises("ValueError: Unsupported activation")

---------------------------------------------------------------------------
(* BertModel.__init__ (modeling.py, lines 131-245). *)

\* copy.deepcopy(config) with the reference copied instead of the object
deepcopy_alias(h, ref) == [heap |-> h, ref |-> ref]

\* copy.deepcopy(config): a new object with the fields of the old one
deepcopy(h, ref) == [heap |-> Append(h, h[ref]), ref |-> Len(h) + 1]

\* the inference configuration with only hidden_dropout_prob cleared
inference_config_hidden_only(config) == [config EXCEPT !.hidden_dropout_prob = 0]

\* lines 158-159
inference_config(config) ==
  [config EXCEPT !.hidden_dropout_prob = 0, !.attention_probs_dropout_prob = 0]

\* lines 156-159: the heap after them and the reference the local config holds
bert_config(h, ref, is_training) ==
  LET copy == deepcopy(h, ref)
  IN  IF ~is_training
      THEN [heap |-> [copy.heap EXCEPT ![copy.ref] = inference_config(@)],
            ref |-> copy.ref]
      ELSE copy

\* the attribute attr of self among the locals of __init__
SelfName(attr) == "self." \o attr

Attributes ==
  {"embedding_output", "embedding_table", "all_encoder_layers", "sequence_output",
   "pooled_output"}

\* the attributes of self assigned so far, read off the locals v
SelfOf(v) ==
  [attr \in {x \in Attributes : SelfName(x) \in DOMAIN v} |-> v[SelfName(attr)]]

\* lines 161-167 alone: the default of the mask without that of the segment ids
bert_inputs_mask_only(c) ==
  LET rank(z)  == assert_rank(z, "input_ids", {2})
      mask(z)  == IF z.err = "" /\ z.v["input_mask"] = None
                  THEN tf_ones(z, "input_mask", get_shape_list(z, "input_ids"))
                  ELSE z
  IN  mask(rank(c))

\* lines 161-170: the rank of input_ids and the default mask and segment ids
bert_inputs(c) ==
  LET rank(z)  == assert_rank(z, "input_ids", {2})
      mask(z)  == IF z.err = "" /\ z.v["input_mask"] = None
                  THEN tf_ones(z, "input_mask", get_shape_list(z, "input_ids"))
                  ELSE z
      types(z) == IF z.err = "" /\ z.v["token_type_ids"] = None
                  THEN tf_zeros(z, "token_type_ids", get_shape_list(z, "input_ids"))
                  ELSE z
  IN  types(mask(rank(c)))

\* lines 175-181 with the table kept in a local
bert_embedding_lookup_local(c, config, use_one_hot_embeddings) ==
  embedding_lookup(c, <<SelfName("embedding_output"), "embedding_table">>, "input_ids",
                   config.vocab_size, config.hidden_size, "word_embeddings",
                   use_one_hot_embeddings)

\* lines 175-181
bert_embedding_lookup(c, config, use_one_hot_embeddings) ==
  embedding_lookup(c, <<SelfName("embedding_output"), SelfName("embedding_table")>>,
                   "input_ids", config.vocab_size, config.hidden_size, "word_embeddings",
                   use_one_hot_embeddings)

\* lines 185-195
bert_embedding_postprocessor(c, config) ==
  embedding_postprocessor(c, SelfName("embedding_output"), SelfName("embedding_output"),
                          TRUE, "token_type_ids", config.type_vocab_size,
                          "token_type_embeddings", TRUE, "position_embeddings",
                          config.max_position_embeddings, config.hidden_dropout_prob)

\* line 204
bert_attention_mask(c) ==
  create_attention_mask_from_input_mask(c, "attention_mask", "input_ids", "input_mask")

\* lines 212-223: the arguments of the transformer_model call, once
\* get_activation has returned act
bert_transformer_args(v, config, act) ==
  [input_tensor |-> v[SelfName("embedding_output")],
   attention_mask |-> v["attention_mask"],
   hidden_size |-> config.hidden_size,
   num_hidden_layers |-> config.num_hidden_layers,
   num_attention_heads |-> config.num_attention_heads,
   intermediate_size |-> config.intermediate_size,
   intermediate_act_fn |-> act.val,
   hidden_dropout_prob |-> config.hidden_dropout_prob,
   attention_probs_dropout_prob |-> config.attention_probs_dropout_prob,
   do_return_all_layers |-> TRUE]

\* line 226 with the embedding output standing in for the last of no layers
bert_sequence_output_fallback(c, layers) ==
  LET all(z)  == Bind(z, SelfName("all_encoder_layers"), layers)
      last(z) == IF z.err = "" /\ layers = <<>>
                 THEN Bind(z, SelfName("sequence_output"), z.v[SelfName("embedding_output")])
                 ELSE Bind(z, SelfName("sequence_output"), Last(layers))
  IN  last(all(c))

\* lines 212 and 226: all_encoder_layers, and its last element
bert_sequence_output(c, layers) ==
  LET all(z)  == Bind(z, SelfName("all_encoder_layers"), layers)
      last(z) == IF z.err = "" /\ layers = <<>>
                 THEN Raise(z, "IndexError: list index out of range")
                 ELSE Bind(z, SelfName("sequence_output"), Last(layers))
  IN  last(all(c))

\* the pooler without the squeeze of the sequence axis
bert_pooler_unsqueezed(c, config) ==
  LET first(z) == LET shape == get_shape_list(z, SelfName("sequence_output"))
                  IN  Emit(z, "first_token_tensor",
                           Node("first_token", "", <<shape[1], 1, shape[3]>>,
                                <<z.v[SelfName("sequence_output")]>>, <<>>))
      dense(z) == tf_layers_dense(z, SelfName("pooled_output"), "first_token_tensor",
                                  config.hidden_size, "tf.tanh", "")
  IN  dense(first(c))

\* lines 239-245: the first token's vector through a dense tanh layer
bert_pooler(c, config) ==
  LET first(z) == LET shape == get_shape_list(z, SelfName("sequence_output"))
                  IN  Emit(z, "first_token_tensor",
                           Node("first_token", "", <<shape[1], shape[3]>>,
                                <<z.v[SelfName("sequence_output")]>>, <<>>))
      dense(z) == tf_layers_dense(z, SelfName("pooled_output"), "first_token_tensor",
                                  config.hidden_size, "tf.tanh", "")
  IN  dense(first(c))

\* the configurations a caller passes: small ones, and one of hidden size 8
\* with 2 heads and 1 layer
Configs ==
  {[vocab_size |-> 3, hidden_size |-> hidden, num_hidden_layers |-> layers,
    num_attention_heads |-> heads, intermediate_size |-> 3, hidden_act |-> act,
    hidden_dropout_prob |-> dp[1], attention_probs_dropout_prob |-> dp[2],
    max_position_embeddings |-> m, type_vocab_size |-> 2, initializer_range |-> 2] :
     hidden \in {2, 3}, layers \in 0..MaxLayers, heads \in {0, 1, 2},
     act \in {PyStr(<<"g", "e", "l", "u">>), PyStr(<<"S", "w", "i", "s", "h">>)},
     dp \in {<<0, 0>>, <<10, 20>>}, m \in {1, 2}}
  \cup
  {[vocab_size |-> 5, hidden_size |-> 8, num_hidden_layers |-> 1,
    num_attention_heads |-> 2, intermediate_size |-> 16,
    hidden_act |-> PyStr(<<"g", "e", "l", "u">>),
    hidden_dropout_prob |-> 10, attention_probs_dropout_prob |-> 10,
    max_position_embeddings |-> 4, type_vocab_size |-> 2, initializer_range |-> 2]}

\* the inputs of a call: ids of shape [2, s] (and [2, 3]) or, with the wrong
\* rank, [2 * s];
\* mask and segment ids given or left out
BertInputs ==
  {[ids |-> shape, input_mask |-> given[1], token_type_ids |-> given[2],
    use_one_hot_embeddings |-> given[3]] :
     shape \in UNION {{<<2, sq>>, <<2 * sq>>} : sq \in 1..MaxDim} \cup {<<2, 3>>},
     given \in {<<None, None, FALSE>>, <<2, None, TRUE>>, <<None, 3, TRUE>>,
                <<2, 3, FALSE>>}}

Init ==
  \E config \in Configs, in \in BertInputs, is_training \in BOOLEAN :
    /\ entry = "BertModel"
    /\ pc = "call"
    /\ args = [config |-> 1, is_training |-> is_training, input_ids |-> 1,
               input_mask |-> in.input_mask, token_type_ids |-> in.token_type_ids,
               use_one_hot_embeddings |-> in.use_one_hot_embeddings]
    /\ heap = <<config>>
    /\ graph = <<Node("placeholder", "input_ids", in.ids, <<>>, <<>>),
                 Node("placeholder", "input_mask", in.ids, <<>>, <<>>),
                 Node("placeholder", "token_type_ids", in.ids, <<>>, <<>>)>>
    /\ feeds = <<>>
    /\ drops = <<>>
    /\ self = NoSelf
    /\ loc = NoFrame
    /\ st = NoFrame
    /\ ret = None
    /\ err = ""

\* a step of __init__ ran to context c
BertStep(c, next) ==
  /\ Step(c, next)
  /\ loc' = [loc EXCEPT !.v = c.v]
  /\ self' = SelfOf(c.v)

\* lines 156-159
BertCopyConfig ==
  /\ entry = "BertModel"
  /\ pc = "call"
  /\ LET r == bert_config(heap, args.config, args.is_training)
     IN  /\ heap' = r.heap
         /\ loc' = [config |-> r.ref,
                    v |-> [input_ids |-> args.input_ids, input_mask |-> args.input_mask,
                           token_type_ids |-> args.token_type_ids]]
  /\ pc' = "inputs"
  /\ UNCHANGED <<entry, args, graph, feeds, drops, self, st, ret, err>>

\* lines 161-170
BertDefaultInputs ==
  /\ pc = "inputs"
  /\ BertStep(bert_inputs(Ctx(graph, <<>>, loc.v)), "embedding_lookup")
  /\ UNCHANGED <<entry, args, heap, feeds, st, ret>>

\* lines 172-181
BertEmbeddingLookup ==
  /\ pc = "embedding_lookup"
  /\ BertStep(bert_embedding_lookup(Ctx(graph, <<"bert", "embeddings">>, loc.v),
                                    heap[loc.config], args.use_one_hot_embeddings),
              "embedding_postprocessor")
  /\ UNCHANGED <<entry, args, heap, feeds, st, ret>>

\* lines 185-195
BertEmbeddingPostprocessor ==
  /\ pc = "embedding_postprocessor"
  /\ BertStep(bert_embedding_postprocessor(Ctx(graph, <<"bert", "embeddings">>, loc.v),
                                           heap[loc.config]),
              "attention_mask")
  /\ UNCHANGED <<entry, args, heap, feeds, st, ret>>

\* lines 197-205
BertAttentionMask ==
  /\ pc = "attention_mask"
  /\ BertStep(bert_attention_mask(Ctx(graph, <<"bert", "encoder">>, loc.v)), "encoder")
  /\ UNCHANGED <<entry, args, heap, feeds, st, ret>>

\* lines 212-223: the arguments are evaluated, get_activation among them,
\* and transformer_model is called
BertCallTransformer ==
  /\ pc = "encoder"
  /\ LET act == get_activation(heap[loc.config].hidden_act)
     IN  /\ err' = act.err
         /\ pc' = IF act.err = "" THEN "transformer_model" ELSE "failed"
         /\ st' = IF act.err = ""
                  THEN TransformerFrame(bert_transformer_args(loc.v, heap[loc.config],
                                                              act.value),
                                        <<"bert", "encoder">>)
                  ELSE st
  /\ UNCHANGED <<entry, args, heap, graph, feeds, drops, self, loc, ret>>

\* lines 212 and 226, once transformer_model has returned
BertSequenceOutput ==
  /\ entry = "BertModel"
  /\ pc = "returned"
  /\ BertStep(bert_sequence_output(Ctx(graph, <<"bert">>, loc.v), ret), "pooler")
  /\ UNCHANGED <<entry, args, heap, feeds, st, ret>>

\* lines 232-245
BertPooler ==
  /\ pc = "pooler"
  /\ BertStep(bert_pooler(Ctx(graph, <<"bert", "pooler">>, loc.v), heap[loc.config]),
              "done")
  /\ UNCHANGED <<entry, args, heap, feeds, st, ret>>

Next ==
  \/ BertCopyConfig
  \/ BertDefaultInputs
  \/ BertEmbeddingLookup
  \/ BertEmbeddingPostprocessor
  \/ BertAttentionMask
  \/ BertCallTransformer
  \/ TransformerBegin
  \/ TransformerLayer
  \/ TransformerReturn
  \/ BertSequenceOutput
  \/ BertPooler

Spec == Init /\ [][Next]_vars

\* C2 as stated: construction either completes with all five outputs
\* produced, or fails at a point where none of them has been produced.
AllOrNothing ==
  entry = "BertModel" =>
    /\ pc = "done" => DOMAIN self = Attributes
    /\ pc = "failed" => DOMAIN self = {}

\* C2, amended: construction either completes with all five outputs produced,
\* or fails with an error and without pooled_output; a failure on the rank of
\* input_ids comes before any output or variable, while a failure of the
\* stack's own checks (head count, width) comes after embedding_output and
\* embedding_table were produced and the embedding variables declared.
ConstructionOutcome ==
  entry = "BertModel" =>
    /\ pc = "done" => (DOMAIN self = Attributes /\ err = "")
    /\ pc = "failed" =>
         /\ err # ""
         /\ "pooled_output" \notin DOMAIN self
         /\ Len(graph[args.input_ids].shape) # 2 =>
              (DOMAIN self = {} /\ VariableNames(graph) = {})
         /\ err \in {HeadsError, WidthError, "ZeroDivisionError"} =>
              /\ {"embedding_output", "embedding_table"} \subseteq DOMAIN self
              /\ "bert/embeddings/word_embeddings" \in VariableNames(graph)
    /\ pc \notin {"done", "failed"} => err = ""

\* a construction refused for its head count, with the embeddings built
ConstructionOutcomeWitness ==
  /\ entry = "BertModel"
  /\ pc = "failed"
  /\ err = HeadsError
  /\ DOMAIN self = {"embedding_output", "embedding_table"}
  /\ heap[args.config].num_hidden_layers = 2

\* C3: with is_training false, both dropout rates of the active configuration
\* are zero from the copy on, before anything is built; every call of dropout
\* made during the build gets rate 0 and returns its input, no dropout op is
\* in the graph, and a completed build has made all 1 + 3 * num_hidden_layers calls.
InferenceNeverDrops ==
  (entry = "BertModel" /\ ~args.is_training) =>
    /\ pc = "call" => Len(graph) = 3
    /\ pc # "call" =>
         /\ heap[loc.config].hidden_dropout_prob = 0
         /\ heap[loc.config].attention_probs_dropout_prob = 0
    /\ \A i \in DOMAIN drops : drops[i].rate = 0 /\ drops[i].output = drops[i].input
    /\ \A k \in DOMAIN graph : graph[k].op # "dropout"
    /\ pc = "done" => Len(drops) = 1 + 3 * heap[args.config].num_hidden_layers

\* an inference build of two layers completed from a configuration with
\* both rates set
InferenceNeverDropsWitness ==
  /\ entry = "BertModel"
  /\ ~args.is_training
  /\ pc = "done"
  /\ heap[args.config].hidden_dropout_prob = 10
  /\ heap[args.config].attention_probs_dropout_prob = 20
  /\ heap[args.config].num_hidden_layers = 2
  /\ Len(drops) = 7

\* C4: no step of the construction changes the caller's configuration object,
\* and the configuration __init__ works with, the one it zeroes, is another object.
CallerConfigUnchanged ==
  [][entry = "BertModel" =>
       /\ heap'[args.config] = heap[args.config]
       /\ loc'.config # args.config]_vars

\* an inference build completed; the caller's configuration still holds its
\* rates, the copy holds zeros
CallerConfigUnchangedWitness ==
  /\ entry = "BertModel"
  /\ pc = "done"
  /\ ~args.is_training
  /\ heap[args.config].hidden_dropout_prob = 10
  /\ heap[args.config].attention_probs_dropout_prob = 20
  /\ heap[loc.config].hidden_dropout_prob = 0
  /\ heap[loc.config].attention_probs_dropout_prob = 0

---------------------------------------------------------------------------
(* get_assignment_map_from_checkpoint (modeling.py, lines 330-354).  A name *)
(* is the sequence of its characters.                                      *)

IsDigit(ch) == ch \in {"0", "1", "2", "3", "4", "5", "6", "7", "8", "9"}

\* the positions of the ":" of name that are followed by digits only, and
\* by at least one
SuffixStarts(name) ==
  {i \in 1..(Len(name) - 1) :
     name[i] = ":" /\ \A j \in (i + 1)..Len(name) : IsDigit(name[j])}

\* lines 338-340 without the removal
variable_name_kept(name) == name

\* lines 338-340: m = re.match("^(.*):\\d+$", name); name = m.group(1) if
\* it matched
variable_name(name) ==
  IF SuffixStarts(name) = {} THEN name
  ELSE SubSeq(name, 1, (CHOOSE i \in SuffixStarts(name) :
                           \A k \in SuffixStarts(name) : k <= i) - 1)

\* an ordered dictionary: its keys in insertion order and the value of each
EmptyDict == [keys |-> <<>>, val |-> <<>>]

\* d[k] = x
DictSet(d, k, x) ==
  [keys |-> IF k \in Range(d.keys) THEN d.keys ELSE Append(d.keys, k),
   val  |-> [y \in Range(d.keys) \cup {k} |-> IF y = k THEN x ELSE d.val[y]]]

\* lines 332-335 and 345: the locals before the first loop
AssignmentFrame ==
  [i |-> 1, name_to_variable |-> EmptyDict, assignment_map |-> EmptyDict,
   initialized_variable_names |-> EmptyDict]

\* lines 336-341 for the variable var
assignment_declare(frame, var) ==
  [frame EXCEPT !.name_to_variable = DictSet(@, variable_name(var), var), !.i = @ + 1]

\* lines 346-352 for the checkpoint entry named name
assignment_match(frame, name) ==
  IF name \notin Range(frame.name_to_variable.keys)
  THEN [frame EXCEPT !.i = @ + 1]
  ELSE [frame EXCEPT
          !.assignment_map = DictSet(@, name, name),
          !.initialized_variable_names =
             DictSet(DictSet(@, name, 1), name \o <<":", "0">>, 1),
          !.i = @ + 1]

\* most declared variables
MaxVars == 2

\* the names of the model: w and b, bare or with the suffixes :0, :1, :0:0
Names ==
  {base \o suffix : base \in {<<"w">>, <<"b">>},
                    suffix \in {<<>>, <<":", "0">>, <<":", "1">>, <<":", "0", ":", "0">>}}

\* the lists of 1..n names
NameLists(n) == UNION {[1..k -> Names] : k \in 1..n}

InitAssignment ==
  \E tvars \in NameLists(MaxVars), init_vars \in NameLists(2) :
    InitCall("get_assignment_map_from_checkpoint",
             [tvars |-> tvars, init_vars |-> init_vars], <<>>, <<>>)

\* lines 332-335
AssignmentCall ==
  /\ entry = "get_assignment_map_from_checkpoint"
  /\ pc = "call"
  /\ loc' = AssignmentFrame
  /\ pc' = "tvars"
  /\ UNCHANGED <<entry, args, heap, graph, feeds, drops, self, st, ret, err>>

\* lines 336-341: one iteration
AssignmentDeclare ==
  /\ pc = "tvars"
  /\ loc.i <= Len(args.tvars)
  /\ loc' = assignment_declare(loc, args.tvars[loc.i])
  /\ UNCHANGED <<entry, pc, args, heap, graph, feeds, drops, self, st, ret, err>>

\* lines 343-345, after the last variable
AssignmentListCheckpoint ==
  /\ pc = "tvars"
  /\ loc.i > Len(args.tvars)
  /\ loc' = [loc EXCEPT !.i = 1]
  /\ pc' = "init_vars"
  /\ UNCHANGED <<entry, args, heap, graph, feeds, drops, self, st, ret, err>>

\* lines 346-352: one iteration
AssignmentMatch ==
  /\ pc = "init_vars"
  /\ loc.i <= Len(args.init_vars)
  /\ loc' = assignment_match(loc, args.init_vars[loc.i])
  /\ UNCHANGED <<entry, pc, args, heap, graph, feeds, drops, self, st, ret, err>>

\* line 354
AssignmentReturn ==
  /\ pc = "init_vars"
  /\ loc.i > Len(args.init_vars)
  /\ ret' = [assignment_map |-> loc.assignment_map,
             initialized_variable_names |-> Range(loc.initialized_variable_names.keys)]
  /\ pc' = "done"
  /\ UNCHANGED <<entry, args, heap, graph, feeds, drops, self, loc, st, err>>

NextAssignment ==
  \/ AssignmentCall
  \/ AssignmentDeclare
  \/ AssignmentListCheckpoint
  \/ AssignmentMatch
  \/ AssignmentReturn

SpecAssignment == InitAssignment /\ [][NextAssignment]_vars

\* name is prefix followed by ":" and one or more digits
HasSuffixAfter(name, prefix) ==
  /\ Len(name) >= Len(prefix) + 2
  /\ SubSeq(name, 1, Len(prefix)) = prefix
  /\ name[Len(prefix) + 1] = ":"
  /\ \A j \in (Len(prefix) + 2)..Len(name) : IsDigit(name[j])

\* name without its trailing ":<digits>", if it has one
Unsuffixed(name) ==
  IF \E k \in 0..Len(name) : HasSuffixAfter(name, SubSeq(name, 1, k))
  THEN SubSeq(name, 1, CHOOSE k \in 0..Len(name) : HasSuffixAfter(name, SubSeq(name, 1, k)))
  ELSE name

ReportsDeclaredNames ==
  (entry = "get_assignment_map_from_checkpoint" /\ pc = "done") =>
    \A d \in Range(args.tvars) :
      d \in ret.initialized_variable_names
        <=> Unsuffixed(d) \in Range(ret.assignment_map.keys)

---------------------------------------------------------------------------
(* dropout called on its own (modeling.py, lines 357-372). *)

InitDropout ==
  \E s \in Shapes(MaxRank), m \in Fills, dropout_prob \in {NoRate, 0, 10, 50, 100} :
    InitCall("dropout", [input_tensor |-> 1, dropout_prob |-> dropout_prob],
             <<Node("placeholder", "input_tensor", s, <<>>, <<>>)>>,
             [x \in {"input_tensor"} |-> Fill(Prod(s), m)])

Dropout ==
  /\ entry = "dropout"
  /\ pc = "call"
  /\ Finish(dropout(Ctx(graph, <<>>, [input_tensor |-> args.input_tensor]), "output",
                    "input_tensor", args.dropout_prob),
            "output", "done")
  /\ UNCHANGED <<entry, args, heap, feeds, self, loc, st>>

SpecDropout == InitDropout /\ [][Dropout]_vars

\* C13: dropout with probability 1 does not fail and does not return its
\* input: it returns a new tensor of the input's shape in which every
\* element is dropped (kept with probability 0).
DropoutAllZero ==
  (entry = "dropout" /\ pc # "call" /\ args.dropout_prob = 100) =>
    /\ pc = "done"
    /\ err = ""
    /\ ret # args.input_tensor
    /\ graph[ret].shape = graph[args.input_tensor].shape
    /\ graph[ret].op = "dropout"
    /\ graph[ret].attr = <<0>>

---------------------------------------------------------------------------
(* get_activation called on its own (modeling.py, lines 293-327). *)

\* word with each of its letters in lower or in upper case
CaseVariants(word) ==
  {[i \in DOMAIN word |->
      Letters[CHOOSE k \in DOMAIN Letters : Letters[k][1] = word[i]][case[i]]] :
     case \in [DOMAIN word -> {1, 2}]}

\* the names get_activation knows and one it does not, in any case; the
\* empty string; None; callables
ActivationArguments ==
  {PyStr(s) : s \in CaseVariants(<<"l", "i", "n", "e", "a", "r">>)
                      \cup CaseVariants(<<"r", "e", "l", "u">>)
                      \cup CaseVariants(<<"g", "e", "l", "u">>)
                      \cup CaseVariants(<<"t", "a", "n", "h">>)
                      \cup CaseVariants(<<"s", "w", "i", "s", "h">>)
                      \cup {<<>>, <<"r", "e", "l", "u", "6">>, <<"g", "e", "l">>}}
    \cup {PyNone, PyFunction("gelu"), PyFunction("tf.nn.relu"), PyFunction("my_activation")}

InitActivation ==
  \E x \in ActivationArguments :
    InitCall("get_activation", [activation_string |-> x], <<>>, <<>>)

GetActivation ==
  /\ entry = "get_activation"
  /\ pc = "call"
  /\ LET r == get_activation(args.activation_string)
     IN  /\ err' = r.err
         /\ ret' = r.value
         /\ pc' = IF r.err = "" THEN "done" ELSE "failed"
  /\ UNCHANGED <<entry, args, heap, graph, feeds, drops, self, loc, st>>

SpecActivation == InitActivation /\ [][GetActivation]_vars

---------------------------------------------------------------------------
(* The stack on its own and inside the model: transformer_model called      *)
(* directly, and BertModel.__init__ calling it.                            *)

SpecStack == (Init \/ InitTransformer) /\ [][Next \/ TransformerCall]_vars

\* the variable named name in the scope of the running transformer_model
\* call, for a path of scope names
StackVariable(path) == JoinPath(st.scope \o path)

\* the tensor that enters layer k: the operand of its query projection
LayerInput(k) ==
  graph[CHOOSE n \in DOMAIN graph :
          /\ graph[n].op = "dense"
          /\ graph[graph[n].inputs[2]].name =
               StackVariable(<<"layer_" \o ToString(k), "attention", "self", "query",
                               "kernel">>)].inputs[1]

\* the tensor that leaves layer k: the result of its last normalization
LayerOutput(k) ==
  CHOOSE n \in DOMAIN graph :
    /\ graph[n].op = "layer_norm"
    /\ graph[graph[n].inputs[2]].name =
         StackVariable(<<"layer_" \o ToString(k), "output", "LayerNorm", "beta">>)

---------------------------------------------------------------------------
(* The outputs of a completed construction. *)

\* C16: when the build completes on a [batch, sequence] grid, sequence_output,
\* every entry of all_encoder_layers and embedding_output have shape
\* [batch, sequence, hidden_size], pooled_output has shape [batch, hidden_size]
\* and embedding_table has shape [vocab_size, hidden_size].
OutputShapes ==
  (entry = "BertModel" /\ pc = "done") =>
    LET config == heap[args.config]
        batch  == graph[args.input_ids].shape[1]
        seq    == graph[args.input_ids].shape[2]
        hidden == config.hidden_size
    IN  /\ graph[self.sequence_output].shape = <<batch, seq, hidden>>
        /\ Len(self.all_encoder_layers) = config.num_hidden_layers
        /\ \A k \in DOMAIN self.all_encoder_layers :
             graph[self.all_encoder_layers[k]].shape = <<batch, seq, hidden>>
        /\ graph[self.embedding_output].shape = <<batch, seq, hidden>>
        /\ graph[self.pooled_output].shape = <<batch, hidden>>
        /\ graph[self.embedding_table].shape = <<config.vocab_size, hidden>>

\* batch 2, sequence 3, hidden 8, heads 2, layers 1: [2, 3, 8] and [2, 8]
OutputShapesWitness ==
  /\ entry = "BertModel"
  /\ pc = "done"
  /\ graph[args.input_ids].shape = <<2, 3>>
  /\ heap[args.config].hidden_size = 8
  /\ heap[args.config].num_attention_heads = 2
  /\ heap[args.config].num_hidden_layers = 1
  /\ graph[self.sequence_output].shape = <<2, 3, 8>>
  /\ graph[self.pooled_output].shape = <<2, 8>>

---------------------------------------------------------------------------
(* What the value of an output depends on. *)

\* every node the value of one of targets is computed from.  The nodes are
\* visited from the last to the first, an input always preceding the node it
\* feeds; Mark marks the inputs of a marked node, Visit walks nodes lo..hi.
DependsOn(targets) ==
  LET RECURSIVE Mark(_, _)
      Mark(marks, inputs) ==
        IF inputs = <<>> THEN marks
        ELSE Mark(IF Head(inputs) = None THEN marks
                  ELSE [marks EXCEPT ![Head(inputs)] = TRUE], Tail(inputs))
      RECURSIVE Visit(_, _, _)
      Visit(lo, hi, marks) ==
        IF lo > hi THEN marks
        ELSE IF lo = hi
             THEN IF marks[lo] THEN Mark(marks, graph[lo].inputs) ELSE marks
             ELSE LET mid   == (lo + hi) \div 2
                      upper == Visit(mid + 1, hi, marks)
                  IN  IF DOMAIN upper = {} THEN upper ELSE Visit(lo, mid, upper)
      all == Visit(1, Len(graph), [n \in DOMAIN graph |-> n \in targets])
  IN  {n \in DOMAIN graph : all[n]}

\* C17: in a build with is_training false, no output is computed from an op
\* that consumes randomness (tf.nn.dropout, line 371): pooled_output,
\* sequence_output, every entry of all_encoder_layers and embedding_output
\* are computed from placeholders, variables and constants alone, so two
\* runs on the same inputs and weights agree.
InferenceDeterministic ==
  (entry = "BertModel" /\ pc = "done" /\ ~args.is_training) =>
    \A n \in DependsOn({self.pooled_output, self.sequence_output, self.embedding_output}
                         \cup Range(self.all_encoder_layers)) :
      /\ graph[n].op # "dropout"
      /\ graph[n].inputs = <<>> => graph[n].op \in {"placeholder", "variable", "ones", "zeros"}

\* an inference build of two layers from a configuration with both rates set,
\* whose pooled output is computed from the ids and the variables of both layers
InferenceDeterministicWitness ==
  /\ entry = "BertModel"
  /\ pc = "done"
  /\ ~args.is_training
  /\ heap[args.config].hidden_dropout_prob > 0
  /\ heap[args.config].attention_probs_dropout_prob > 0
  /\ Len(self.all_encoder_layers) = 2
  /\ args.input_ids \in DependsOn({self.pooled_output})
  /\ \E n \in DependsOn({self.pooled_output}) :
       graph[n].op = "variable"

---------------------------------------------------------------------------
(* Absent inputs. *)

\* C18: once the ids have passed the rank check, an absent input_mask is a
\* tensor of ones of the shape of input_ids, whose value is that of a mask
\* placeholder fed all ones, and an absent token_type_ids is a tensor of
\* zeros of that shape, valued as a placeholder fed all zeros; a given
\* tensor is used as it is; the rest of the build reads these tensors; and
\* the post-processor never fails for missing segment ids.
AbsentInputsDefaulted ==
  /\ err # "ValueError: token_type_ids must be specified"
  /\ (entry = "BertModel" /\ pc \notin {"call", "inputs"}
        /\ Len(graph[args.input_ids].shape) = 2) =>
       LET shape == graph[args.input_ids].shape
           mask  == loc.v["input_mask"]
           types == loc.v["token_type_ids"]
       IN  /\ args.input_mask # None => mask = args.input_mask
           /\ args.input_mask = None =>
                /\ mask # None
                /\ graph[mask].shape = shape
                /\ Eval(graph, mask, <<>>)
                     = Eval(graph, 2, [input_mask |-> [k \in 1..Prod(shape) |-> 1]])
           /\ args.token_type_ids # None => types = args.token_type_ids
           /\ args.token_type_ids = None =>
                /\ types # None
                /\ graph[types].shape = shape
                /\ Eval(graph, types, <<>>)
                     = Eval(graph, 3, [token_type_ids |-> [k \in 1..Prod(shape) |-> 0]])
           /\ pc = "done" =>
                /\ types \in DependsOn({self.embedding_output})
                /\ heap[args.config].num_hidden_layers > 0
                     => mask \in DependsOn({self.sequence_output})

\* a completed build of a layer or more with neither mask nor segment ids given
AbsentInputsDefaultedWitness ==
  /\ entry = "BertModel"
  /\ pc = "done"
  /\ args.input_mask = None
  /\ args.token_type_ids = None
  /\ heap[args.config].num_hidden_layers > 0
  /\ graph[loc.v["input_mask"]].op = "ones"
  /\ graph[loc.v["token_type_ids"]].op = "zeros"

---------------------------------------------------------------------------
(* The attention probabilities of one row: the scores of one batch element,
   head and from-position over the to-axis.  Scores are whole numbers;
   probabilities are in units of 1/10000. *)

\* tf.nn.softmax over a row: exp(x - max) over its sum, exp rounded to 1/10000
\* (exp(-10) and below round to 0)
tf_nn_softmax(x) ==
  LET exp  == <<10000, 3679, 1353, 498, 183, 67, 25, 9, 3, 1>>
      max  == CHOOSE m \in Range(x) : \A y \in Range(x) : m >= y
      w    == [i \in DOMAIN x |-> IF max - x[i] < Len(exp) THEN exp[max - x[i] + 1] ELSE 0]
      sum  == SeqSum(w)
  IN  [i \in DOMAIN x |-> (w[i] * 10000) \div sum]

\* the softmax of the scores as they are, no adder
attention_probs_no_adder(attention_scores, attention_mask) ==
  tf_nn_softmax(attention_scores)

\* lines 787-814 on a row of scaled scores: the adder of the mask, the
\* softmax, and dropout with probability 0
attention_probs(attention_scores, attention_mask) ==
  LET adder == [i \in DOMAIN attention_mask |-> (1 - attention_mask[i]) * (-10000)]
  IN  tf_nn_softmax([i \in DOMAIN attention_scores |-> attention_scores[i] + adder[i]])

AttentionProbs ==
  /\ entry = "attention_probs"
  /\ pc = "call"
  /\ ret' = attention_probs(args.attention_scores, args.attention_mask)
  /\ pc' = "done"
  /\ UNCHANGED <<entry, args, heap, graph, feeds, drops, self, loc, st, err>>

\* rows of 1 to 3 to-positions, with scores near each other and scores about
\* 10000 apart, under every mask
SpecProbs ==
  /\ \E n \in 1..3 :
       \E scores \in [1..n -> {0, 2, 9985, 9995, 10005}], mask \in [1..n -> {0, 1}] :
         InitCall("attention_probs", [attention_scores |-> scores, attention_mask |-> mask],
                  <<>>, <<>>)
  /\ [][AttentionProbs]_vars

---------------------------------------------------------------------------
(* The operations of a layer. *)

\* C20: in every layer built, the attention output (computed from the
\* layer's value projection) goes through a linear dense layer to
\* hidden_size, then dropout at the hidden rate, then the layer input is
\* added, then layer_norm; that result goes through a dense layer to
\* intermediate_size with the activation, a linear dense layer to
\* hidden_size, dropout at the hidden rate, then the normalized attention
\* result (not the layer input) is added, then layer_norm gives the layer
\* output.  Each sum has the dropout result as first operand and is the
\* operand of the normalization.
LayerOperations ==
  st # NoFrame =>
    \A k \in 0..(st.layer_idx - 1) :
      LET L == "layer_" \o ToString(k)
          Variable(path) == CHOOSE n \in DOMAIN graph :
                              graph[n].op = "variable" /\ graph[n].name = StackVariable(path)
          Dense(path) == CHOOSE n \in DOMAIN graph :
                           /\ graph[n].op = "dense"
                           /\ graph[n].inputs[2] = Variable(path \o <<"dense", "kernel">>)
          Norm(path)  == CHOOSE n \in DOMAIN graph :
                           /\ graph[n].op = "layer_norm"
                           /\ graph[n].inputs[2] = Variable(path \o <<"LayerNorm", "beta">>)
          Drop(path)  == drops[CHOOSE i \in DOMAIN drops : drops[i].scope = StackVariable(path)]
          Dropped(d)  == /\ d.rate = st.a.hidden_dropout_prob
                         /\ IF d.rate = 0 THEN d.output = d.input
                            ELSE /\ graph[d.output].op = "dropout"
                                 /\ graph[d.output].inputs = <<d.input>>
          projection   == Dense(<<L, "attention", "output">>)
          first_drop   == Drop(<<L, "attention", "output">>)
          first_norm   == Norm(<<L, "attention", "output">>)
          first_sum    == graph[first_norm].inputs[1]
          intermediate == Dense(<<L, "intermediate">>)
          output       == Dense(<<L, "output">>)
          second_drop  == Drop(<<L, "output">>)
          second_norm  == Norm(<<L, "output">>)
          second_sum   == graph[second_norm].inputs[1]
      IN  /\ Variable(<<L, "attention", "self", "value", "kernel">>)
               \in DependsOn({graph[projection].inputs[1]})
          /\ graph[projection].name = ""
          /\ Last(graph[projection].shape) = st.a.hidden_size
          /\ first_drop.input = projection
          /\ Dropped(first_drop)
          /\ graph[first_sum].op = "add"
          /\ graph[first_sum].inputs = <<first_drop.output, LayerInput(k)>>
          /\ graph[intermediate].inputs[1] = first_norm
          /\ graph[intermediate].name = st.a.intermediate_act_fn
          /\ Last(graph[intermediate].shape) = st.a.intermediate_size
          /\ graph[output].inputs[1] = intermediate
          /\ graph[output].name = ""
          /\ Last(graph[output].shape) = st.a.hidden_size
          /\ second_drop.input = output
          /\ Dropped(second_drop)
          /\ graph[second_sum].op = "add"
          /\ graph[second_sum].inputs = <<second_drop.output, first_norm>>
          /\ first_norm # LayerInput(k)
          /\ st.all_layer_outputs[k + 1] = second_norm

\* two layers built with a positive hidden rate: both dropouts of the second
\* layer are ops of the graph
LayerOperationsWitness ==
  /\ st # NoFrame
  /\ st.layer_idx = 2
  /\ st.a.hidden_dropout_prob > 0
  /\ \E i, j \in DOMAIN drops :
       /\ drops[i].scope = StackVariable(<<"layer_1", "attention", "output">>)
       /\ drops[j].scope = StackVariable(<<"layer_1", "output">>)
       /\ graph[drops[i].output].op = "dropout"
       /\ graph[drops[j].output].op = "dropout"

---------------------------------------------------------------------------
(* The checks of transformer_model. *)

\* C21: transformer_model called with an input whose last axis differs from
\* hidden_size fails with the width error, and a call fails with the first
\* of the divisibility, rank and width errors that applies; in each case
\* nothing has been built: no variable is declared, no layer was begun and
\* the graph is the caller's.  The width error arises in no other case.
WidthRejected ==
  (entry = "transformer_model" /\ pc \notin {"call", "transformer_model"}) =>
    LET shape     == graph[args.input_tensor].shape
        divisible == /\ args.num_attention_heads # 0
                     /\ args.hidden_size % args.num_attention_heads = 0
        indivisible == /\ args.num_attention_heads # 0
                       /\ args.hidden_size % args.num_attention_heads # 0
        rank3     == Len(shape) = 3
        wide      == Last(shape) # args.hidden_size
        untouched == /\ pc = "failed"
                     /\ VariableNames(graph) = {}
                     /\ Len(graph) = 2
                     /\ st.layer_idx = 0
                     /\ st.all_layer_outputs = <<>>
    IN  /\ indivisible => (untouched /\ err = HeadsError)
        /\ (divisible /\ ~rank3) => (untouched /\ err = "ValueError: rank")
        /\ (divisible /\ rank3 /\ wide) => (untouched /\ err = WidthError)
        /\ err = WidthError => (divisible /\ rank3 /\ wide)
        /\ (divisible /\ rank3 /\ ~wide) => err \notin {HeadsError, "ValueError: rank", WidthError}

\* a stack of two layers refused for the width 3 of its rank-3 input, the
\* hidden size 2 being a multiple of the 2 heads
WidthRejectedWitness ==
  /\ entry = "transformer_model"
  /\ pc = "failed"
  /\ err = WidthError
  /\ args.hidden_size = 2
  /\ args.num_attention_heads = 2
  /\ args.num_hidden_layers = 2
  /\ graph[args.input_tensor].shape = <<2, 2, 3>>
  /\ VariableNames(graph) = {}

---------------------------------------------------------------------------
(* The variables of a build. *)

\* C22: no declaration of a build fails for a name already taken, the
\* variables of the graph have names that differ from one another, and a
\* completed build of num_hidden_layers layers has declared exactly the
\* embeddings' five variables, the pooler's two and, under layer_i for each
\* layer i, sixteen: kernel and bias of the query, key and value projections,
\* of the attention output projection, of the intermediate layer and of the
\* output projection, and beta and gamma of the two normalizations.
DistinctVariables ==
  LET Both(path, names) == {JoinPath(path \o <<n>>) : n \in names}
      Dense(path) == Both(path, {"kernel", "bias"})
      Norm(path)  == Both(path \o <<"LayerNorm">>, {"beta", "gamma"})
      Layer(k) ==
        LET L == <<"bert", "encoder", "layer_" \o ToString(k)>>
        IN  Dense(L \o <<"attention", "self", "query">>)
              \cup Dense(L \o <<"attention", "self", "key">>)
              \cup Dense(L \o <<"attention", "self", "value">>)
              \cup Dense(L \o <<"attention", "output", "dense">>)
              \cup Norm(L \o <<"attention", "output">>)
              \cup Dense(L \o <<"intermediate", "dense">>)
              \cup Dense(L \o <<"output", "dense">>)
              \cup Norm(L \o <<"output">>)
      Embeddings == Both(<<"bert", "embeddings">>,
                         {"word_embeddings", "token_type_embeddings", "position_embeddings"})
                      \cup Norm(<<"bert", "embeddings">>)
      Pooler == Dense(<<"bert", "pooler", "dense">>)
  IN  /\ err # "ValueError: variable already exists"
      /\ Cardinality({n \in DOMAIN graph : graph[n].op = "variable"})
           = Cardinality(VariableNames(graph))
      /\ (entry = "BertModel" /\ pc = "done") =>
           LET layers == heap[args.config].num_hidden_layers
           IN  /\ VariableNames(graph)
                    = Embeddings \cup Pooler \cup UNION {Layer(k) : k \in 0..(layers - 1)}
               /\ Cardinality(VariableNames(graph)) = 7 + 16 * layers

\* a completed build of two layers: 39 variables
DistinctVariablesWitness ==
  /\ entry = "BertModel"
  /\ pc = "done"
  /\ heap[args.config].num_hidden_layers = 2
  /\ Cardinality({n \in DOMAIN graph : graph[n].op = "variable"}) = 39
  /\ "bert/encoder/layer_0/output/dense/kernel" \in VariableNames(graph)
  /\ "bert/encoder/layer_1/attention/output/dense/kernel" \in VariableNames(graph)

---------------------------------------------------------------------------
(* The bias of the attention mask. *)

\* C23: in a completed attention_layer call with a mask, the softmax is
\* taken of the sum of the scaled scores (the matmul times
\* 1/sqrt(size_per_head)) and an adder that no scaling has touched, of shape
\* [B, 1, F, T] against scores of shape [B, N, F, T]; for masks of ones with
\* at most one zero, and for the mask of zeros, the adder added at
\* (b, n, f, t) is 0 where mask[b][f][t] = 1 and -10000 where it is 0,
\* whatever the head n.  Without a mask the softmax is taken of the scaled
\* scores themselves.
MaskBias ==
  (entry = "attention_layer" /\ pc = "done") =>
    LET probs  == CHOOSE n \in DOMAIN graph : graph[n].op = "softmax"
        scores == graph[probs].inputs[1]
        Scaled(t) == /\ graph[t].op = "scale"
                     /\ graph[t].attr = <<args.size_per_head>>
                     /\ graph[graph[t].inputs[1]].op = "matmul"
        mask_shape == graph[3].shape
        size   == Prod(mask_shape)
        masks  == {[k \in 1..size |-> IF k = z THEN 0 ELSE 1] : z \in 0..size}
                    \cup {[k \in 1..size |-> 0]}
    IN  IF args.attention_mask = None THEN Scaled(scores)
        ELSE LET scaled == graph[scores].inputs[1]
                 adder  == graph[scores].inputs[2]
                 shape  == graph[scores].shape
             IN  /\ graph[scores].op = "add"
                 /\ Scaled(scaled)
                 /\ shape = <<mask_shape[1], args.num_attention_heads, mask_shape[2],
                              mask_shape[3]>>
                 /\ graph[adder].shape = <<mask_shape[1], 1, mask_shape[2], mask_shape[3]>>
                 /\ \A n \in DependsOn({adder}) : graph[n].op # "scale"
                 /\ args.attention_mask \in DependsOn({adder})
                 /\ \A mask \in masks :
                      LET bias == Eval(graph, adder, [attention_mask |-> mask])
                      IN  \A k \in 0..(Prod(shape) - 1) :
                            LET ix == Unravel(k, shape)
                                at == mask[Ravel(<<ix[1], ix[3], ix[4]>>, mask_shape) + 1]
                            IN  bias[BroadcastOffset(ix, graph[adder].shape)]
                                  = IF at = 1 THEN 0 ELSE -10000

\* a call with a mask over two heads, two from-positions and two to-positions
MaskBiasWitness ==
  /\ entry = "attention_layer"
  /\ pc = "done"
  /\ args.attention_mask = 3
  /\ args.num_attention_heads = 2
  /\ args.size_per_head = 2
  /\ graph[3].shape = <<2, 2, 2>>
  /\ \E n \in DOMAIN graph : graph[n].op = "add" /\ graph[n].shape = <<2, 2, 2, 2>>

---------------------------------------------------------------------------
(* A stack of no layers. *)

====
